---- MODULE Spec2Model ----
(***************************************************************************)
(* State-machine model of the tcpraw relay server (hdmain/rawuploader):    *)
(* the blob store (index, metadata files, data files), the three upload    *)
(* handlers, the TCP and HTTP download handlers, the expiry sweeper,       *)
(* start-up recovery and the per-IP rate limiter.                          *)
(*                                                                         *)
(* Time is a natural number of ticks.  64-bit unsigned header fields are   *)
(* modelled in a narrow word (U64Mod) so that the signed conversion        *)
(* int64(x) keeps its wrap-around.                                         *)
(***************************************************************************)
EXTENDS Integers, Sequences, FiniteSets, TLC

(***************************************************************************)
(* Bounds of the model and parameters of the server.                       *)
(***************************************************************************)
\* last instant of the modelled clock
MaxTime == 2
\* longest chunk sequence a client puts on the wire
MaxChunks == 2
\* download requests the rate-limiter specification follows
MaxReqs == 5
\* clock horizon of the rate-limiter specification
MaxTimeRL == 3

\* The configuration of main.go, scaled down: the handlers only compare
\* these values, they never depend on their magnitude.
\* store.storageDuration (StorageDuration), in ticks
StorageDuration == 1
\* MaxBlobSize, in bytes of plaintext: one 9-byte and one 10-byte chunk fit
MaxBlobSize == 19
\* rateLimiter.max / .window / .ban as passed to newRateLimiter
RateLimitAttempts == 2
RateLimitWindow == 2
BanDuration == 3

\* width of the modelled uint64: values are 0 .. U64Mod-1
U64Mod == 64
\* the AEAD tag appended to every sealed chunk (the literal 16 of the handlers)
TagLen == 16
CodeLength == 6
\* serverID of the running server (flag -id or auto-detected)
ServerID == 1

StatusOK == 0
StatusChecksumError == 1
StatusError == 2
StatusNotFound == 3

\* net/http status codes used by the web surface
HttpOK == 200
HttpFound == 302

(***************************************************************************)
(* Partial maps (Go maps, directory contents).                             *)
(***************************************************************************)
EmptyMap == [x \in {} |-> 0]

MapPut(m, k, v) == [x \in (DOMAIN m) \cup {k} |-> IF x = k THEN v ELSE m[x]]

MapDel(m, k) == [x \in (DOMAIN m) \ {k} |-> m[x]]

(***************************************************************************)
(* Integer conversions.                                                    *)
(***************************************************************************)
\* int64(x) of a uint64 x: the top half of the range becomes negative
Int64(x) == IF 2 * x >= U64Mod THEN x - U64Mod ELSE x

\* uint64 addition
AddU64(a, b) == (a + b) % U64Mod

(***************************************************************************)
(* Codes: six characters.  fmt.Sprintf("%d%05d", serverID, n).             *)
(***************************************************************************)
DigitChars == <<"0", "1", "2", "3", "4", "5", "6", "7", "8", "9">>

DigitChar(d) == DigitChars[d + 1]

Pad5(n) ==
  << DigitChar((n \div 10000) % 10), DigitChar((n \div 1000) % 10),
     DigitChar((n \div 100) % 10), DigitChar((n \div 10) % 10),
     DigitChar(n % 10) >>

\* a generator that ignores the server id
generateCodeWithoutID(serverID, rnd) == <<DigitChar(0)>> \o Pad5(rnd)

generateCodeWithServerID(serverID, rnd) ==
  LET sid == IF serverID < 0 \/ serverID > 9 THEN 0 ELSE serverID
  IN  <<DigitChar(sid)>> \o Pad5(rnd)

\* outcomes of rand.Intn(100000) that the model draws
RandVals == {7, 42}

\* codes a client puts on the wire (it mints them with the same function)
WireCodes == {generateCodeWithServerID(ServerID, n) : n \in RandVals}

AllCodes == WireCodes

(***************************************************************************)
(* Names: strings as character sequences; filepath.Base on "/" paths.      *)
(***************************************************************************)
RECURSIVE StripTrailingSlashes(_)
StripTrailingSlashes(s) ==
  IF Len(s) > 0 /\ s[Len(s)] = "/" THEN StripTrailingSlashes(SubSeq(s, 1, Len(s) - 1))
  ELSE s

RECURSIVE AfterLastSlash(_, _)
AfterLastSlash(s, i) ==
  IF i = 0 THEN s
  ELSE IF s[i] = "/" THEN SubSeq(s, i + 1, Len(s))
  ELSE AfterLastSlash(s, i - 1)

\* filepath.Base: "" -> ".", all slashes -> "/", else the last element
Base(path) ==
  IF Len(path) = 0 THEN <<".">>
  ELSE LET t == StripTrailingSlashes(path)
       IN  IF Len(t) = 0 THEN <<"/">> ELSE AfterLastSlash(t, Len(t))

\* strings.Contains(s, "..")
ContainsDotDot(s) == \E i \in 1..(Len(s) - 1) : s[i] = "." /\ s[i + 1] = "."

\* the baseName test of the upload handlers
NameRejected(baseName) == baseName = <<>> \/ ContainsDotDot(baseName)

Names == { <<>>, <<"d", "/", "a">>, <<".", ".">> }

(***************************************************************************)
(* Crypto adapter, abstractly: a plaintext is a length and an identity; a  *)
(* sealed buffer remembers the key and the plaintext, and its length is    *)
(* the plaintext length plus the tag.                                      *)
(***************************************************************************)
deriveKey(code) == <<"sha256", code, "tcpraw-v1">>

ExtKey == <<"external">>
NoKey == <<"none">>

Plain(n, id) == [n |-> n, id |-> id]

Seal(key, pt) == [len |-> pt.n + TagLen, key |-> key, pt |-> pt]

\* bytes that no AEAD produced (too short to hold a tag, or garbage)
Junk(n) == [len |-> n, key |-> NoKey, pt |-> Plain(0, "junk")]

\* AEAD open succeeds under the sealing key only
OpenOk(key, sealed) == sealed.key = key /\ sealed.len = sealed.pt.n + TagLen

\* one chunk record on the wire or in a data file: nonce, sealedLen, sealed
Frame(nonce, sealed) == [nonce |-> nonce, sealedLen |-> sealed.len, sealed |-> sealed]


(***************************************************************************)
(* State.                                                                  *)
(***************************************************************************)
VARIABLES
  now,        \* wall clock (time.Now), in ticks
  index,      \* store.index: code -> createdAt
  indexFile,  \* content of .index.gob
  blobFiles,  \* <code>.blob files: code -> StoredBlob
  dataFiles,  \* <code>.dat files: code -> sequence of frames
  attempts,   \* rateLimiter.attempts: ip -> rlEntry
  banned,     \* rateLimiter.banned: ip -> until
  resp,       \* what the last handled connection or job did (observation)
  reqLog,     \* the download requests so far, with the limiter's verdicts (observation)
  conns,      \* upload connections followed step by step: goroutine -> its locals
  sel         \* the client's server selection: probes pending, results, best

vars == <<now, index, indexFile, blobFiles, dataFiles, attempts, banned, resp, reqLog,
          conns, sel>>

\* what a handler that runs to its end in one step, a job or the clock leaves alone
elsewhere == <<conns, sel>>

storeVars == <<index, indexFile, blobFiles, dataFiles>>
limiterVars == <<attempts, banned>>

\* the store as one value, for the operators below
Store == [index |-> index, indexFile |-> indexFile,
          blobFiles |-> blobFiles, dataFiles |-> dataFiles]

SetStore(S) ==
  /\ index' = S.index
  /\ indexFile' = S.indexFile
  /\ blobFiles' = S.blobFiles
  /\ dataFiles' = S.dataFiles

StoredBlob(name, sum, nonce, sealed, total, n, chunked, secure, createdAt) ==
  [Name |-> name, PlaintextChecksum |-> sum, Nonce |-> nonce, Sealed |-> sealed,
   TotalPlainLen |-> total, NumChunks |-> n, Chunked |-> chunked,
   Secure |-> secure, CreatedAt |-> createdAt]

\* zero values of the fields a handler leaves unset
NoNonce == 0
NoSealed == Junk(0)

(***************************************************************************)
(* Blob store.                                                             *)
(***************************************************************************)
\* time.Since(createdAt) > storageDuration
\* a retention test that lets a blob live one instant longer
StaleLate(createdAt, t) == t - createdAt > StorageDuration + 1

\* a retention test that already fails at the exact retention age
StaleAtBoundary(createdAt, t) == t - createdAt >= StorageDuration

Stale(createdAt, t) == t - createdAt > StorageDuration

\* outcomes of the file operations of store.put
PutFaults == {"none", "create", "encode", "close", "saveIndex"}

\* store.put: write <code>.blob, then insert into the index and rewrite it
put(S, code, b, fault) ==
  CASE fault = "create" -> S
    [] fault \in {"encode", "close"} ->
         [S EXCEPT !.blobFiles = MapDel(S.blobFiles, code)]
    [] fault = "saveIndex" ->
         [S EXCEPT !.blobFiles = MapPut(S.blobFiles, code, b),
                   !.index = MapPut(S.index, code, b.CreatedAt)]
    [] OTHER ->
         [S EXCEPT !.blobFiles = MapPut(S.blobFiles, code, b),
                   !.index = MapPut(S.index, code, b.CreatedAt),
                   !.indexFile = MapPut(S.index, code, b.CreatedAt)]

\* a handler that does not look at the error of the index rewrite
putErrIgnoresSaveIndex(fault) == fault \notin {"none", "saveIndex"}

putErr(fault) == fault # "none"

\* store.get: (blob, ok)
getOk(S, code, t) ==
  /\ code \in DOMAIN S.index
  /\ ~Stale(S.index[code], t)
  /\ code \in DOMAIN S.blobFiles

getBlob(S, code) == S.blobFiles[code]

\* store.remove
remove(S, code) ==
  [S EXCEPT !.blobFiles = MapDel(S.blobFiles, code),
            !.dataFiles = MapDel(S.dataFiles, code),
            !.index = MapDel(S.index, code),
            !.indexFile = MapDel(S.index, code)]

RECURSIVE removeAll(_, _)
removeAll(S, codes) ==
  IF codes = {} THEN S
  ELSE LET c == CHOOSE x \in codes : TRUE
       IN  removeAll(remove(S, c), codes \ {c})

\* store.cleanupExpired: createdAt.Before(now - storageDuration)
expiredCodes(S, t) == {c \in DOMAIN S.index : S.index[c] < t - StorageDuration}

\* a sweep that removes nothing
cleanupNothing(S, t) == S

cleanupExpired(S, t) == removeAll(S, expiredCodes(S, t))

\* directory entry names
BlobSuffix == <<".", "b", "l", "o", "b">>
DataSuffix == <<".", "d", "a", "t">>

blobPath(code) == code \o BlobSuffix
dataPath(code) == code \o DataSuffix

HasSuffix(s, suf) ==
  Len(s) >= Len(suf) /\ SubSeq(s, Len(s) - Len(suf) + 1, Len(s)) = suf

\* the test of removeOrphanBlobs on one directory entry name
orphanCandidate(name) ==
  /\ HasSuffix(name, BlobSuffix) \/ HasSuffix(name, DataSuffix)
  /\ Len(name) = CodeLength + 5

isOrphan(S, name) ==
  orphanCandidate(name) /\ SubSeq(name, 1, CodeLength) \notin DOMAIN S.index

\* store.removeOrphanBlobs
removeOrphanBlobs(S) ==
  [S EXCEPT
     !.blobFiles = [c \in {x \in DOMAIN S.blobFiles : ~isOrphan(S, blobPath(x))}
                      |-> S.blobFiles[c]],
     !.dataFiles = [c \in {x \in DOMAIN S.dataFiles : ~isOrphan(S, dataPath(x))}
                      |-> S.dataFiles[c]]]

\* a start-up that begins with an empty index
loadIndexEmpty(S) == [S EXCEPT !.index = EmptyMap]

\* store.loadIndex: the in-memory index is what .index.gob holds
loadIndex(S) == [S EXCEPT !.index = S.indexFile]

\* a start-up that skips the sweep of expired blobs
newStoreNoSweep(S, t) == removeOrphanBlobs(loadIndex(S))

\* newStore
newStore(S, t) == cleanupExpired(removeOrphanBlobs(loadIndex(S)), t)


(***************************************************************************)
(* Rate limiter.                                                           *)
(***************************************************************************)
Limiter == [attempts |-> attempts, banned |-> banned]

SetLimiter(L) ==
  /\ attempts' = L.attempts
  /\ banned' = L.banned

rlEntry(count, windowStart) == [count |-> count, windowStart |-> windowStart]

\* a limiter whose overflow test is off by one
allowOffByOne(L, ip, t) ==
  IF ip \in DOMAIN L.banned /\ t < L.banned[ip]
  THEN [ok |-> FALSE, attempts |-> L.attempts, banned |-> L.banned]
  ELSE
    LET banned1 == MapDel(L.banned, ip)
        e0 == IF ip \notin DOMAIN L.attempts
                 \/ t - L.attempts[ip].windowStart > RateLimitWindow
              THEN rlEntry(0, t)
              ELSE L.attempts[ip]
        e1 == rlEntry(e0.count + 1, e0.windowStart)
    IN  IF e1.count > RateLimitAttempts + 1
        THEN [ok |-> FALSE, attempts |-> MapDel(L.attempts, ip),
              banned |-> MapPut(banned1, ip, t + BanDuration)]
        ELSE [ok |-> TRUE, attempts |-> MapPut(L.attempts, ip, e1),
              banned |-> banned1]

\* a limiter that opens a fresh window on every attempt
allowForgetsWindow(L, ip, t) ==
  IF ip \in DOMAIN L.banned /\ t < L.banned[ip]
  THEN [ok |-> FALSE, attempts |-> L.attempts, banned |-> L.banned]
  ELSE
    LET banned1 == MapDel(L.banned, ip)
        e0 == rlEntry(0, t)
        e1 == rlEntry(e0.count + 1, e0.windowStart)
    IN  IF e1.count > RateLimitAttempts
        THEN [ok |-> FALSE, attempts |-> MapDel(L.attempts, ip),
              banned |-> MapPut(banned1, ip, t + BanDuration)]
        ELSE [ok |-> TRUE, attempts |-> MapPut(L.attempts, ip, e1),
              banned |-> banned1]

\* a limiter that denies the overflowing attempt without recording a ban
allowNoBan(L, ip, t) ==
  IF ip \in DOMAIN L.banned /\ t < L.banned[ip]
  THEN [ok |-> FALSE, attempts |-> L.attempts, banned |-> L.banned]
  ELSE
    LET banned1 == MapDel(L.banned, ip)
        e0 == IF ip \notin DOMAIN L.attempts
                 \/ t - L.attempts[ip].windowStart > RateLimitWindow
              THEN rlEntry(0, t)
              ELSE L.attempts[ip]
        e1 == rlEntry(e0.count + 1, e0.windowStart)
    IN  IF e1.count > RateLimitAttempts
        THEN [ok |-> FALSE, attempts |-> MapDel(L.attempts, ip),
              banned |-> banned1]
        ELSE [ok |-> TRUE, attempts |-> MapPut(L.attempts, ip, e1),
              banned |-> banned1]

\* a limiter for which a ban still holds at the instant it ends
allowBanInclusive(L, ip, t) ==
  IF ip \in DOMAIN L.banned /\ t <= L.banned[ip]
  THEN [ok |-> FALSE, attempts |-> L.attempts, banned |-> L.banned]
  ELSE
    LET banned1 == MapDel(L.banned, ip)
        e0 == IF ip \notin DOMAIN L.attempts
                 \/ t - L.attempts[ip].windowStart > RateLimitWindow
              THEN rlEntry(0, t)
              ELSE L.attempts[ip]
        e1 == rlEntry(e0.count + 1, e0.windowStart)
    IN  IF e1.count > RateLimitAttempts
        THEN [ok |-> FALSE, attempts |-> MapDel(L.attempts, ip),
              banned |-> MapPut(banned1, ip, t + BanDuration)]
        ELSE [ok |-> TRUE, attempts |-> MapPut(L.attempts, ip, e1),
              banned |-> banned1]

\* rateLimiter.allow: the verdict and the limiter it leaves
allow(L, ip, t) ==
  IF ip \in DOMAIN L.banned /\ t < L.banned[ip]
  THEN [ok |-> FALSE, attempts |-> L.attempts, banned |-> L.banned]
  ELSE
    LET banned1 == MapDel(L.banned, ip)
        e0 == IF ip \notin DOMAIN L.attempts
                 \/ t - L.attempts[ip].windowStart > RateLimitWindow
              THEN rlEntry(0, t)
              ELSE L.attempts[ip]
        e1 == rlEntry(e0.count + 1, e0.windowStart)
    IN  IF e1.count > RateLimitAttempts
        THEN [ok |-> FALSE, attempts |-> MapDel(L.attempts, ip),
              banned |-> MapPut(banned1, ip, t + BanDuration)]
        ELSE [ok |-> TRUE, attempts |-> MapPut(L.attempts, ip, e1),
              banned |-> banned1]

(***************************************************************************)
(* Observations: the reply of the last handled connection.                 *)
(***************************************************************************)
NoIP == "-"
NoCode == <<>>

Reply(op, ip, code, status, format, payload) ==
  [op |-> op, ip |-> ip, code |-> code, status |-> status,
   format |-> format, payload |-> payload]

Idle(op) == Reply(op, NoIP, NoCode, -1, -1, <<>>)

\* header and frames of a chunked transfer
Chunked(name, total, n, sum, frames) ==
  [name |-> name, totalPlainLen |-> total, numChunks |-> n,
   checksum |-> sum, frames |-> frames]

\* name, checksum, nonce and sealed buffer of a single-blob transfer
Single(name, sum, nonce, sealed) ==
  [name |-> name, checksum |-> sum, nonce |-> nonce, sealed |-> sealed]

(***************************************************************************)
(* Upload handlers.                                                        *)
(***************************************************************************)
\* the chunk loop of handleUpload on the frames the connection delivers:
\* short read, sealedLen < 16 and the running size cap end it with an error
RECURSIVE streamChunks(_, _, _, _)
streamChunks(chunks, numChunks, i, plainCount) ==
  IF i >= numChunks THEN [ok |-> TRUE, plainCount |-> plainCount]
  ELSE IF i + 1 > Len(chunks) THEN [ok |-> FALSE, plainCount |-> plainCount]
  ELSE IF chunks[i + 1].sealedLen < TagLen THEN [ok |-> FALSE, plainCount |-> plainCount]
  ELSE LET pc == AddU64(plainCount, chunks[i + 1].sealedLen - TagLen)
       IN  IF MaxBlobSize > 0 /\ Int64(pc) > MaxBlobSize
           THEN [ok |-> FALSE, plainCount |-> pc]
           ELSE streamChunks(chunks, numChunks, i + 1, pc)

\* the header size test of the chunked upload handlers
\* a header test that already refuses a total equal to the cap
headerTooLargeAtCap(totalPlainLen) == MaxBlobSize > 0 /\ Int64(totalPlainLen) >= MaxBlobSize

headerTooLarge(totalPlainLen) == MaxBlobSize > 0 /\ Int64(totalPlainLen) > MaxBlobSize

\* the final length test of handleUpload
lengthMismatch(plainCount, totalPlainLen) == plainCount # totalPlainLen

\* handleUpload on the request w; fault is the outcome of store.put's file operations
handleUpload(w, fault) ==
  LET baseName == Base(w.name)
      loop == streamChunks(w.chunks, w.numChunks, 0, 0)
      frames == SubSeq(w.chunks, 1, w.numChunks)
      blob == StoredBlob(baseName, w.checksum, NoNonce, NoSealed, w.totalPlainLen,
                         w.numChunks, TRUE, FALSE, now)
      created == [Store EXCEPT !.dataFiles = MapPut(Store.dataFiles, w.code, frames)]
      deleted == [Store EXCEPT !.dataFiles = MapDel(Store.dataFiles, w.code)]
      fail == Reply("upload", NoIP, w.code, StatusError, -1, <<>>)
  IN
  /\ UNCHANGED <<now, attempts, banned, reqLog, elsewhere>>
  /\ IF ~w.complete \/ headerTooLarge(w.totalPlainLen) \/ NameRejected(baseName)
     THEN resp' = fail /\ UNCHANGED storeVars
     ELSE IF ~loop.ok \/ lengthMismatch(loop.plainCount, w.totalPlainLen)
     THEN resp' = fail /\ SetStore(deleted)
     ELSE IF putErr(fault)
     THEN resp' = fail /\ SetStore(put(created, w.code, blob, fault))
     ELSE /\ SetStore(put(created, w.code, blob, fault))
          /\ resp' = Reply("upload", NoIP, w.code, StatusOK, -1,
                           <<Chunked(baseName, w.totalPlainLen, w.numChunks,
                                     w.checksum, frames)>>)


\* ReadSecureUpload's size test on the sealed length
sealedTooLarge(sealedLen, maxSealed) == maxSealed > 0 /\ sealedLen > maxSealed

\* handleSecureUpload, format 0: one sealed buffer kept in the metadata record
handleSecureUpload(w, rnd, fault) ==
  LET baseName == Base(w.name)
      code == generateCodeWithServerID(ServerID, rnd)
      blob == StoredBlob(baseName, w.checksum, w.nonce, w.sealed, 0, 0, FALSE, TRUE, now)
      fail == Reply("secure", NoIP, NoCode, StatusError, -1, <<>>)
  IN
  /\ UNCHANGED <<now, attempts, banned, reqLog, elsewhere>>
  /\ IF ~w.complete \/ sealedTooLarge(w.sealed.len, MaxBlobSize) \/ NameRejected(baseName)
     THEN resp' = fail /\ UNCHANGED storeVars
     ELSE IF putErr(fault)
     THEN resp' = fail /\ SetStore(put(Store, code, blob, fault))
     ELSE /\ SetStore(put(Store, code, blob, fault))
          /\ resp' = Reply("secure", NoIP, code, StatusOK, -1,
                           <<Single(baseName, w.checksum, w.nonce, w.sealed)>>)

\* ReadChunkRaw on one frame: nonce, sealedLen, sealed; a length that cannot
\* hold the tag is a framing error
ReadChunkRawOk(frame) == frame.sealedLen >= TagLen

\* the chunk loop of handleSecureUploadChunked
RECURSIVE secureStreamChunks(_, _, _)
secureStreamChunks(chunks, numChunks, i) ==
  IF i >= numChunks THEN TRUE
  ELSE IF i + 1 > Len(chunks) THEN FALSE
  ELSE IF ~ReadChunkRawOk(chunks[i + 1]) THEN FALSE
  ELSE secureStreamChunks(chunks, numChunks, i + 1)

\* handleSecureUploadChunked (format 1)
handleSecureUploadChunked(w, rnd, fault) ==
  LET baseName == Base(w.name)
      code == generateCodeWithServerID(ServerID, rnd)
      frames == SubSeq(w.chunks, 1, w.numChunks)
      blob == StoredBlob(baseName, w.checksum, NoNonce, NoSealed, w.totalPlainLen,
                         w.numChunks, TRUE, TRUE, now)
      created == [Store EXCEPT !.dataFiles = MapPut(Store.dataFiles, code, frames)]
      deleted == [Store EXCEPT !.dataFiles = MapDel(Store.dataFiles, code)]
      failed == put(created, code, blob, fault)
      fail == Reply("securechunked", NoIP, NoCode, StatusError, -1, <<>>)
  IN
  /\ UNCHANGED <<now, attempts, banned, reqLog, elsewhere>>
  /\ IF ~w.complete \/ headerTooLarge(w.totalPlainLen) \/ NameRejected(baseName)
     THEN resp' = fail /\ UNCHANGED storeVars
     ELSE IF ~secureStreamChunks(w.chunks, w.numChunks, 0)
     THEN resp' = fail /\ SetStore(deleted)
     ELSE IF putErr(fault)
     THEN /\ resp' = fail
          /\ SetStore([failed EXCEPT !.dataFiles = MapDel(failed.dataFiles, code)])
     ELSE /\ SetStore(put(created, code, blob, fault))
          /\ resp' = Reply("securechunked", NoIP, code, StatusOK, -1,
                           <<Chunked(baseName, w.totalPlainLen, w.numChunks,
                                     w.checksum, frames)>>)


(***************************************************************************)
(* Download handlers.                                                      *)
(***************************************************************************)
\* sendChunkedFromFile: the header from the metadata record, then NumChunks
\* frames read back from <code>.dat; (ok, what was written to the writer)
\* a sender that stops one frame short
sendChunkedDropsLast(S, code, blob) ==
  IF code \notin DOMAIN S.dataFiles THEN [ok |-> FALSE, payload |-> <<>>]
  ELSE LET file == S.dataFiles[code]
           n == IF blob.NumChunks <= Len(file) THEN blob.NumChunks ELSE Len(file)
       IN  [ok |-> blob.NumChunks <= Len(file),
            payload |-> <<Chunked(blob.Name, blob.TotalPlainLen, blob.NumChunks,
                                  blob.PlaintextChecksum, SubSeq(file, 1, n - 1))>>]

sendChunkedFromFile(S, code, blob) ==
  IF code \notin DOMAIN S.dataFiles THEN [ok |-> FALSE, payload |-> <<>>]
  ELSE LET file == S.dataFiles[code]
           n == IF blob.NumChunks <= Len(file) THEN blob.NumChunks ELSE Len(file)
       IN  [ok |-> blob.NumChunks <= Len(file),
            payload |-> <<Chunked(blob.Name, blob.TotalPlainLen, blob.NumChunks,
                                  blob.PlaintextChecksum, SubSeq(file, 1, n))>>]

\* WriteEncryptedBlob
WriteEncryptedBlob(blob) ==
  <<Single(blob.Name, blob.PlaintextChecksum, blob.Nonce, blob.Sealed)>>

\* the format byte handleDownload picks from the flags of the record
formatByte(blob) ==
  IF blob.Secure /\ blob.Chunked THEN 3
  ELSE IF blob.Secure THEN 2
  ELSE IF blob.Chunked THEN 1
  ELSE 0

\* a handler that reads the code first and asks the limiter only then
handleDownloadParsesFirst(ip, req) ==
  LET A == IF req.complete THEN allow(Limiter, ip, now)
           ELSE [ok |-> TRUE, attempts |-> attempts, banned |-> banned]
      blob == getBlob(Store, req.code)
      sent == IF blob.Chunked THEN sendChunkedFromFile(Store, req.code, blob)
              ELSE [ok |-> TRUE, payload |-> WriteEncryptedBlob(blob)]
  IN
  /\ UNCHANGED <<now, elsewhere>>
  /\ SetLimiter(A)
  /\ IF ~A.ok \/ ~req.complete
     THEN /\ resp' = Reply("download", ip, req.code, StatusError, -1, <<>>)
          /\ UNCHANGED storeVars
     ELSE IF ~getOk(Store, req.code, now)
     THEN /\ resp' = Reply("download", ip, req.code, StatusNotFound, -1, <<>>)
          /\ UNCHANGED storeVars
     ELSE IF Stale(blob.CreatedAt, now)
     THEN /\ resp' = Reply("download", ip, req.code, StatusNotFound, -1, <<>>)
          /\ SetStore(remove(Store, req.code))
     ELSE /\ UNCHANGED storeVars
          /\ resp' = IF sent.ok
                     THEN Reply("download", ip, req.code, StatusOK,
                                formatByte(blob), sent.payload)
                     ELSE Reply("download", ip, req.code, StatusOK, -1, <<>>)

\* a handler that hands a blob out once and removes it
handleDownloadConsumes(ip, req) ==
  LET A == allow(Limiter, ip, now)
      blob == getBlob(Store, req.code)
      sent == IF blob.Chunked THEN sendChunkedFromFile(Store, req.code, blob)
              ELSE [ok |-> TRUE, payload |-> WriteEncryptedBlob(blob)]
  IN
  /\ UNCHANGED <<now, elsewhere>>
  /\ SetLimiter(A)
  /\ IF ~A.ok \/ ~req.complete
     THEN /\ resp' = Reply("download", ip, req.code, StatusError, -1, <<>>)
          /\ UNCHANGED storeVars
     ELSE IF ~getOk(Store, req.code, now)
     THEN /\ resp' = Reply("download", ip, req.code, StatusNotFound, -1, <<>>)
          /\ UNCHANGED storeVars
     ELSE IF Stale(blob.CreatedAt, now)
     THEN /\ resp' = Reply("download", ip, req.code, StatusNotFound, -1, <<>>)
          /\ SetStore(remove(Store, req.code))
     ELSE /\ SetStore(remove(Store, req.code))
          /\ resp' = IF sent.ok
                     THEN Reply("download", ip, req.code, StatusOK,
                                formatByte(blob), sent.payload)
                     ELSE Reply("download", ip, req.code, StatusOK, -1, <<>>)

\* handleDownload: the limiter first, then the 6 code bytes, then the lookup.
\* The format byte and the payload reach the peer with the final Flush only.
handleDownload(ip, req) ==
  LET A == allow(Limiter, ip, now)
      blob == getBlob(Store, req.code)
      sent == IF blob.Chunked THEN sendChunkedFromFile(Store, req.code, blob)
              ELSE [ok |-> TRUE, payload |-> WriteEncryptedBlob(blob)]
  IN
  /\ UNCHANGED <<now, elsewhere>>
  /\ SetLimiter(A)
  /\ IF ~A.ok \/ ~req.complete
     THEN /\ resp' = Reply("download", ip, req.code, StatusError, -1, <<>>)
          /\ UNCHANGED storeVars
     ELSE IF ~getOk(Store, req.code, now)
     THEN /\ resp' = Reply("download", ip, req.code, StatusNotFound, -1, <<>>)
          /\ UNCHANGED storeVars
     ELSE IF Stale(blob.CreatedAt, now)
     THEN /\ resp' = Reply("download", ip, req.code, StatusNotFound, -1, <<>>)
          /\ SetStore(remove(Store, req.code))
     ELSE /\ UNCHANGED storeVars
          /\ resp' = IF sent.ok
                     THEN Reply("download", ip, req.code, StatusOK,
                                formatByte(blob), sent.payload)
                     ELSE Reply("download", ip, req.code, StatusOK, -1, <<>>)

\* the chunk loop of GET /get: plaintexts written before the first failure
RECURSIVE webChunks(_, _, _, _, _)
webChunks(file, numChunks, code, i, body) ==
  IF i >= numChunks THEN [ok |-> TRUE, body |-> body]
  ELSE IF i + 1 > Len(file) THEN [ok |-> FALSE, body |-> body]
  ELSE IF ~OpenOk(deriveKey(code), file[i + 1].sealed) THEN [ok |-> FALSE, body |-> body]
  ELSE webChunks(file, numChunks, code, i + 1, Append(body, file[i + 1].sealed.pt))

\* GET /get?code=...: a redirect (302) carries an error; once a chunk has
\* been written the response is a 200 that a later redirect cannot change
webRedirect(ip, code, err) == Reply("webget", ip, code, HttpFound, -1, <<[err |-> err]>>)

\* a GET /get that treats a secure record like any other
webGetServesSecure(ip, code) ==
  LET A == allow(Limiter, ip, now)
      blob == getBlob(Store, code)
      w == IF code \in DOMAIN dataFiles
           THEN webChunks(dataFiles[code], blob.NumChunks, code, 0, <<>>)
           ELSE [ok |-> FALSE, body |-> <<>>]
  IN
  /\ UNCHANGED <<now, elsewhere>>
  /\ SetLimiter(A)
  /\ IF ~A.ok
     THEN resp' = webRedirect(ip, code, "Too many attempts") /\ UNCHANGED storeVars
     ELSE IF Len(code) # CodeLength
     THEN resp' = webRedirect(ip, code, "Invalid code") /\ UNCHANGED storeVars
     ELSE IF ~getOk(Store, code, now)
     THEN resp' = webRedirect(ip, code, "Code not found or expired") /\ UNCHANGED storeVars
     ELSE IF Stale(blob.CreatedAt, now)
     THEN resp' = webRedirect(ip, code, "Code expired") /\ SetStore(remove(Store, code))
     ELSE /\ UNCHANGED storeVars
          /\ IF FALSE THEN resp' = webRedirect(ip, code, "Secure upload")
             ELSE IF blob.Chunked
             THEN resp' = IF ~w.ok /\ w.body = <<>>
                          THEN webRedirect(ip, code, "Decrypt failed")
                          ELSE Reply("webget", ip, code, HttpOK, -1,
                                     <<[body |-> w.body, complete |-> w.ok]>>)
             ELSE resp' = IF ~OpenOk(deriveKey(code), blob.Sealed)
                          THEN webRedirect(ip, code, "Decrypt failed")
                          ELSE Reply("webget", ip, code, HttpOK, -1,
                                     <<[body |-> <<blob.Sealed.pt>>, complete |-> TRUE]>>)

\* a GET /get that never consults the limiter
webGetUnlimited(ip, code) ==
  LET A == [ok |-> TRUE, attempts |-> attempts, banned |-> banned]
      blob == getBlob(Store, code)
      w == IF code \in DOMAIN dataFiles
           THEN webChunks(dataFiles[code], blob.NumChunks, code, 0, <<>>)
           ELSE [ok |-> FALSE, body |-> <<>>]
  IN
  /\ UNCHANGED <<now, elsewhere>>
  /\ SetLimiter(A)
  /\ IF ~A.ok
     THEN resp' = webRedirect(ip, code, "Too many attempts") /\ UNCHANGED storeVars
     ELSE IF Len(code) # CodeLength
     THEN resp' = webRedirect(ip, code, "Invalid code") /\ UNCHANGED storeVars
     ELSE IF ~getOk(Store, code, now)
     THEN resp' = webRedirect(ip, code, "Code not found or expired") /\ UNCHANGED storeVars
     ELSE IF Stale(blob.CreatedAt, now)
     THEN resp' = webRedirect(ip, code, "Code expired") /\ SetStore(remove(Store, code))
     ELSE /\ UNCHANGED storeVars
          /\ IF blob.Secure THEN resp' = webRedirect(ip, code, "Secure upload")
             ELSE IF blob.Chunked
             THEN resp' = IF ~w.ok /\ w.body = <<>>
                          THEN webRedirect(ip, code, "Decrypt failed")
                          ELSE Reply("webget", ip, code, HttpOK, -1,
                                     <<[body |-> w.body, complete |-> w.ok]>>)
             ELSE resp' = IF ~OpenOk(deriveKey(code), blob.Sealed)
                          THEN webRedirect(ip, code, "Decrypt failed")
                          ELSE Reply("webget", ip, code, HttpOK, -1,
                                     <<[body |-> <<blob.Sealed.pt>>, complete |-> TRUE]>>)

webGet(ip, code) ==
  LET A == allow(Limiter, ip, now)
      blob == getBlob(Store, code)
      w == IF code \in DOMAIN dataFiles
           THEN webChunks(dataFiles[code], blob.NumChunks, code, 0, <<>>)
           ELSE [ok |-> FALSE, body |-> <<>>]
  IN
  /\ UNCHANGED <<now, elsewhere>>
  /\ SetLimiter(A)
  /\ IF ~A.ok
     THEN resp' = webRedirect(ip, code, "Too many attempts") /\ UNCHANGED storeVars
     ELSE IF Len(code) # CodeLength
     THEN resp' = webRedirect(ip, code, "Invalid code") /\ UNCHANGED storeVars
     ELSE IF ~getOk(Store, code, now)
     THEN resp' = webRedirect(ip, code, "Code not found or expired") /\ UNCHANGED storeVars
     ELSE IF Stale(blob.CreatedAt, now)
     THEN resp' = webRedirect(ip, code, "Code expired") /\ SetStore(remove(Store, code))
     ELSE /\ UNCHANGED storeVars
          /\ IF blob.Secure THEN resp' = webRedirect(ip, code, "Secure upload")
             ELSE IF blob.Chunked
             THEN resp' = IF ~w.ok /\ w.body = <<>>
                          THEN webRedirect(ip, code, "Decrypt failed")
                          ELSE Reply("webget", ip, code, HttpOK, -1,
                                     <<[body |-> w.body, complete |-> w.ok]>>)
             ELSE resp' = IF ~OpenOk(deriveKey(code), blob.Sealed)
                          THEN webRedirect(ip, code, "Decrypt failed")
                          ELSE Reply("webget", ip, code, HttpOK, -1,
                                     <<[body |-> <<blob.Sealed.pt>>, complete |-> TRUE]>>)

\* a probe handler that asks the limiter first
handleTestLimited(ip, complete) ==
  /\ resp' = Reply("test", ip, NoCode, -1, -1,
                   IF complete /\ allow(Limiter, ip, now).ok THEN <<[probe |-> TRUE]>> ELSE <<>>)
  /\ SetLimiter(allow(Limiter, ip, now))
  /\ UNCHANGED <<now, storeVars, reqLog, elsewhere>>

\* handleTest: once the probe request is read, free space and the test
\* payload are written; the store and the limiter are not touched
handleTest(ip, complete) ==
  /\ resp' = Reply("test", ip, NoCode, -1, -1,
                   IF complete THEN <<[probe |-> TRUE]>> ELSE <<>>)
  /\ UNCHANGED <<now, storeVars, attempts, banned, reqLog, elsewhere>>

(***************************************************************************)
(* Client: server selection (tryServersFromList).                          *)
(***************************************************************************)
\* entries of the server list that carry an address, ids 0 .. MaxServers-1
MaxServers == 3

Candidates == 0..(MaxServers - 1)

\* the size of the file the client is about to send
ProbeFileSize == 5

\* the largest test payload probeServer accepts
MaxTestPayload == 4 * 1024 * 1024

\* bytes per second as a fraction: num bytes in den ten-thousandths of a second
Speed(num, den) == [num |-> num, den |-> den]

ZeroSpeed == Speed(0, 1)

\* a comparison that prefers the lower rate
Slower(a, b) == a.num * b.den < b.num * a.den

\* a > b on two rates
Faster(a, b) == a.num * b.den > b.num * a.den

probeResult(serverID, speedBps, ok) ==
  [serverID |-> serverID, speedBps |-> speedBps, ok |-> ok]

\* what one probe meets: the connection's fate, the free space the server
\* reports, the payload length it announces, and the time the payload took
ProbeRuns ==
  [io : {"ok", "dial", "read"},
   free : {ProbeFileSize - 1, ProbeFileSize},
   payloadLen : {0, 1024, 2048, MaxTestPayload, MaxTestPayload + 1},
   elapsed : {0, 1, 2}]

\* probeServer
probeServer(serverID, run) ==
  IF \/ run.io # "ok"
     \/ run.free < ProbeFileSize
     \/ run.payloadLen = 0 \/ run.payloadLen > MaxTestPayload
  THEN probeResult(serverID, ZeroSpeed, FALSE)
  ELSE probeResult(serverID,
                   Speed(run.payloadLen, IF run.elapsed < 1 THEN 1 ELSE run.elapsed),
                   TRUE)

\* tryServersFromList once the probes are started: nothing received yet,
\* best is the zero probeResult
SelectionStarted ==
  [pending |-> Candidates, results |-> {}, best |-> probeResult(0, ZeroSpeed, FALSE),
   outcome |-> "probing", dialed |-> {}, serverID |-> 0]

\* one round of the loop over the results channel
pickBest(best, r) ==
  IF ~r.ok THEN best
  ELSE IF Faster(r.speedBps, best.speedBps) THEN r
  ELSE best

\* a probe goroutine sends its result and the loop receives it
ProbeReports(id, run) ==
  /\ sel.outcome = "probing" /\ id \in sel.pending
  /\ LET r == probeServer(id, run)
     IN  sel' = [sel EXCEPT !.pending = @ \ {id},
                            !.results = @ \cup {r},
                            !.best = pickBest(@, r)]
  /\ UNCHANGED <<now, storeVars, attempts, banned, resp, reqLog, conns>>

\* the channel is closed: the error, or the dial of the best candidate
SelectionEnds(dialOk) ==
  /\ sel.outcome = "probing" /\ sel.pending = {}
  /\ sel' = IF ~sel.best.ok
            THEN [sel EXCEPT !.outcome = "no server available"]
            ELSE IF ~dialOk
            THEN [sel EXCEPT !.outcome = "dial error", !.dialed = {sel.best.serverID}]
            ELSE [sel EXCEPT !.outcome = "connected", !.dialed = {sel.best.serverID},
                             !.serverID = sel.best.serverID]
  /\ UNCHANGED <<now, storeVars, attempts, banned, resp, reqLog, conns>>

\* no upload connection is being followed step by step
NoConns == <<>>

(***************************************************************************)
(* Background jobs, start-up, clock.                                       *)
(***************************************************************************)
\* one tick of the sweeper goroutine
Sweep ==
  /\ SetStore(cleanupExpired(Store, now))
  /\ resp' = Idle("sweep")
  /\ UNCHANGED <<now, attempts, banned, reqLog, elsewhere>>

\* the process ends and runServer starts again on the same data directory
Restart ==
  /\ SetStore(newStore(Store, now))
  /\ attempts' = EmptyMap
  /\ banned' = EmptyMap
  /\ resp' = Idle("restart")
  /\ UNCHANGED <<now, reqLog, elsewhere>>

Tick(horizon) ==
  /\ now < horizon
  /\ now' = now + 1
  /\ resp' = Idle("tick")
  /\ UNCHANGED <<index, indexFile, blobFiles, dataFiles, attempts, banned, reqLog, elsewhere>>

Init ==
  /\ now = 0
  /\ index = EmptyMap
  /\ indexFile = EmptyMap
  /\ blobFiles = EmptyMap
  /\ dataFiles = EmptyMap
  /\ attempts = EmptyMap
  /\ banned = EmptyMap
  /\ resp = Idle("init")
  /\ reqLog = <<>>
  /\ conns = NoConns
  /\ sel = SelectionStarted


(***************************************************************************)
(* Requests the model's clients send.                                      *)
(***************************************************************************)
IPs == {"10.0.0.1"}

\* chunk records a client can put on the wire under a key: two sealed
\* chunks of 9 and 10 plaintext bytes, and one whose length cannot hold a tag
ChunkP(key) == Frame(1, Seal(key, Plain(9, "p")))
ChunkQ(key) == Frame(2, Seal(key, Plain(10, "q")))
ChunkJ == Frame(3, Junk(TagLen - 1))

ChunkSeqs(frames) == UNION {[1..n -> frames] : n \in 0..MaxChunks}

RECURSIVE PlainSum(_)
PlainSum(cs) ==
  IF cs = <<>> THEN 0
  ELSE (IF cs[1].sealedLen >= TagLen THEN cs[1].sealedLen - TagLen ELSE 0)
       + PlainSum(Tail(cs))

\* SHA-256 of the whole plaintext, as the sender computes it
Sha256(cs) == <<"sha256", [i \in 1..Len(cs) |-> cs[i].sealed.pt.id]>>

GoodName == <<"d", "/", "a">>

\* what WriteEncryptedUploadChunked sends for a file cut into the chunks cs
HonestUpload(code, cs) ==
  [code |-> code, name |-> GoodName, totalPlainLen |-> PlainSum(cs),
   numChunks |-> Len(cs), checksum |-> Sha256(cs), chunks |-> cs, complete |-> TRUE]

\* a request and, for one-chunk requests, its one-field deviations
Deviations(h) ==
  {h}
  \cup (IF Len(h.chunks) = 1
        THEN {[h EXCEPT !.totalPlainLen = t] :
                t \in {h.totalPlainLen + 1, U64Mod - 1}
                      \cup (IF h.totalPlainLen > 0 THEN {h.totalPlainLen - 1} ELSE {})}
             \cup {[h EXCEPT !.numChunks = n] : n \in {0, 2}}
             \cup {[h EXCEPT !.name = n] : n \in Names}
             \cup {[h EXCEPT !.complete = FALSE]}
        ELSE {})

\* the requests whose header total is one off the sum of their chunks
OffByOne(h) ==
  {[h EXCEPT !.totalPlainLen = t] :
     t \in {h.totalPlainLen + 1}
           \cup (IF h.totalPlainLen > 0 THEN {h.totalPlainLen - 1} ELSE {})}

\* every sequence of sealed chunks up to MaxChunks, and two with a bad chunk
AllBodies(key) ==
  ChunkSeqs({ChunkP(key), ChunkQ(key)}) \cup {<<ChunkJ>>, <<ChunkP(key), ChunkJ>>}

\* one sealed chunk, and one chunk that is no sealed chunk
FewBodies(key) == {<<ChunkP(key)>>, <<ChunkJ>>}

\* requests as an unmodified client sends them, one chunk each
HonestUploads(codes) ==
  UNION { {HonestUpload(c, cs) : cs \in FewBodies(deriveKey(c))} : c \in codes }

\* requests for the regular upload, well-formed and not
RegularUploads(codes) ==
  UNION { UNION { Deviations(HonestUpload(c, cs)) : cs \in AllBodies(deriveKey(c)) }
          : c \in codes }

\* format 1 of the secure upload: the same header without the code
SecureChunkedUploads ==
  UNION { Deviations(HonestUpload(NoCode, cs)) : cs \in AllBodies(ExtKey) }

SecureHonest == {HonestUpload(NoCode, cs) : cs \in FewBodies(ExtKey)}

\* format 0 of the secure upload
SecureUploads ==
  LET one(n) == [name |-> GoodName, checksum |-> <<"sha256", <<"s">>>>, nonce |-> 1,
                 sealed |-> Seal(ExtKey, Plain(n, "s")), complete |-> TRUE]
  IN  {one(n) : n \in {1, MaxBlobSize - TagLen, MaxBlobSize - TagLen + 1}}
      \cup {[one(1) EXCEPT !.name = n] : n \in Names}
      \cup {[one(1) EXCEPT !.complete = FALSE]}

DownloadRequests(codes) ==
  {[code |-> c, complete |-> TRUE] : c \in codes}
  \cup {[code |-> NoCode, complete |-> FALSE]}

\* values of the code query parameter
WebCodes(codes) == codes \cup {<<"1", "2">>}

(***************************************************************************)
(* The server.                                                             *)
(***************************************************************************)
TcpDownload(ip, req) == handleDownload(ip, req) /\ UNCHANGED reqLog

WebDownload(ip, code) == webGet(ip, code) /\ UNCHANGED reqLog

\* the code of the one-code specification
OneRand == {7}
OneCode == {generateCodeWithServerID(ServerID, n) : n \in OneRand}

\* the whole server; every upload meets the same code
Next ==
  \/ \E w \in RegularUploads(OneCode) : handleUpload(w, "none")
  \/ \E w \in SecureUploads, r \in OneRand : handleSecureUpload(w, r, "none")
  \/ \E w \in SecureChunkedUploads, r \in OneRand :
        handleSecureUploadChunked(w, r, "none")
  \/ \E ip \in IPs, req \in DownloadRequests(OneCode) : TcpDownload(ip, req)
  \/ \E ip \in IPs, code \in WebCodes(OneCode) : WebDownload(ip, code)
  \/ \E ip \in IPs, complete \in BOOLEAN : handleTest(ip, complete)
  \/ Sweep
  \/ Restart
  \/ Tick(MaxTime)

Spec == Init /\ [][Next]_vars

(***************************************************************************)
(* The store under uploads, expiry, restarts and crashes, with two codes.  *)
(***************************************************************************)
\* store.put cut short after the metadata file is closed, before the index
\* is touched
putCrashed(S, code, b) == [S EXCEPT !.blobFiles = MapPut(S.blobFiles, code, b)]

\* store.remove cut short after the two os.Remove calls
removeCrashed(S, code) ==
  [S EXCEPT !.blobFiles = MapDel(S.blobFiles, code),
            !.dataFiles = MapDel(S.dataFiles, code)]

Restarted(S) ==
  /\ SetStore(newStore(S, now))
  /\ attempts' = EmptyMap
  /\ banned' = EmptyMap
  /\ resp' = Idle("restart")
  /\ UNCHANGED <<now, reqLog, elsewhere>>

\* the process dies inside store.put of an upload that passed every check,
\* and the server is started again
CrashInUpload(w) ==
  LET loop == streamChunks(w.chunks, w.numChunks, 0, 0)
      blob == StoredBlob(Base(w.name), w.checksum, NoNonce, NoSealed, w.totalPlainLen,
                         w.numChunks, TRUE, FALSE, now)
      created == [Store EXCEPT
                    !.dataFiles = MapPut(Store.dataFiles, w.code,
                                         SubSeq(w.chunks, 1, w.numChunks))]
  IN  /\ w.complete /\ ~headerTooLarge(w.totalPlainLen) /\ ~NameRejected(Base(w.name))
      /\ loop.ok /\ ~lengthMismatch(loop.plainCount, w.totalPlainLen)
      /\ Restarted(putCrashed(created, w.code, blob))

\* the process dies inside store.remove during a sweep, and the server is
\* started again
CrashInSweep ==
  \E c \in expiredCodes(Store, now) : Restarted(removeCrashed(Store, c))

NextStore ==
  \/ \E w \in HonestUploads(WireCodes) : handleUpload(w, "none")
  \/ \E w \in SecureUploads, r \in RandVals : handleSecureUpload(w, r, "none")
  \/ \E w \in SecureHonest, r \in RandVals :
        handleSecureUploadChunked(w, r, "none")
  \/ \E w \in HonestUploads(WireCodes) : CrashInUpload(w)
  \/ CrashInSweep
  \/ Sweep
  \/ Restart
  \/ Tick(MaxTime)

SpecStore == Init /\ [][NextStore]_vars

\* uploads, restarts and the clock, with the sweeper's ticker
\* (time.NewTicker in runServer) never starved
NextGC ==
  \/ \E w \in HonestUploads(WireCodes) : handleUpload(w, "none")
  \/ \E w \in SecureUploads, r \in RandVals : handleSecureUpload(w, r, "none")
  \/ Sweep
  \/ Restart
  \/ Tick(MaxTime)

SpecGC == Init /\ [][NextGC]_vars /\ WF_vars(Sweep)

(***************************************************************************)
(* The upload handlers alone, under every request shape, at one instant.   *)
(***************************************************************************)
\* regular upload requests: every body, honest or with one field changed
WideUploads(codes) ==
  UNION { UNION { Deviations(HonestUpload(c, cs)) \cup OffByOne(HonestUpload(c, cs))
                  : cs \in AllBodies(deriveKey(c)) }
          : c \in codes }

\* the same requests for format 1 of the secure upload
WideSecureChunked ==
  UNION { Deviations(HonestUpload(NoCode, cs)) \cup OffByOne(HonestUpload(NoCode, cs))
          : cs \in AllBodies(ExtKey) }

\* the requests of the two chunked handlers in this specification
UpRequests == WideUploads(OneCode)

NextUp ==
  \/ \E w \in UpRequests : handleUpload(w, "none")
  \/ \E w \in SecureUploads, r \in OneRand : handleSecureUpload(w, r, "none")
  \/ \E w \in WideSecureChunked, r \in OneRand : handleSecureUploadChunked(w, r, "none")

SpecUp == Init /\ [][NextUp]_vars

(***************************************************************************)
(* The codes under which blobs are stored.                                 *)
(***************************************************************************)
\* six bytes of a client that did not build its code from a server id
ForgedCode == <<"x", "0", "0", "0", "0", "7">>

\* the server ids runClientSend ends up with: 0 for an address given by
\* hand, otherwise the hint or the probed winner
ClientIDs == {0, ServerID}

\* the codes runClientSend builds for the id it chose
ClientCodes(id) == {generateCodeWithServerID(id, rnd) : rnd \in OneRand}

\* the codes regular uploads carry on the wire
UpCodes == UNION {ClientCodes(id) : id \in ClientIDs} \cup {ForgedCode}

NextCodes ==
  \/ \E w \in HonestUploads(UpCodes) : handleUpload(w, "none")
  \/ \E w \in SecureUploads, r \in RandVals : handleSecureUpload(w, r, "none")
  \/ \E w \in SecureHonest, r \in RandVals : handleSecureUploadChunked(w, r, "none")

SpecCodes == Init /\ [][NextCodes]_vars

(***************************************************************************)
(* The rate limiter under download requests on both surfaces.              *)
(***************************************************************************)
IPsRL == {"10.0.0.1", "10.0.0.2"}

Event(ip, t, surface, ok) == [ip |-> ip, t |-> t, surface |-> surface, ok |-> ok]

TcpDownloadLogged(ip, req) ==
  /\ Len(reqLog) < MaxReqs
  /\ handleDownload(ip, req)
  /\ reqLog' = Append(reqLog, Event(ip, now, "tcp", resp'.status # StatusError))

WebDownloadLogged(ip, code) ==
  /\ Len(reqLog) < MaxReqs
  /\ webGet(ip, code)
  /\ reqLog' = Append(reqLog, Event(ip, now, "web",
                                    resp'.payload # <<[err |-> "Too many attempts"]>>))

NextRL ==
  \/ \E ip \in IPsRL, c \in OneCode : TcpDownloadLogged(ip, [code |-> c, complete |-> TRUE])
  \/ \E ip \in IPsRL, c \in OneCode : WebDownloadLogged(ip, c)
  \/ Tick(MaxTimeRL)

SpecRL == Init /\ [][NextRL]_vars

(***************************************************************************)
(* The client choosing a server.                                           *)
(***************************************************************************)
NextSel ==
  \/ \E id \in Candidates, run \in ProbeRuns : ProbeReports(id, run)
  \/ \E dialOk \in BOOLEAN : SelectionEnds(dialOk)

SpecSel == Init /\ [][NextSel]_vars

(***************************************************************************)
(* The upload handlers when the file operations of store.put can fail.     *)
(***************************************************************************)
\* the regular upload requests of this specification
FaultUploads == HonestUploads(WireCodes)

NextFault ==
  \/ \E w \in FaultUploads, f \in PutFaults : handleUpload(w, f)
  \/ \E w \in SecureUploads, r \in OneRand, f \in PutFaults :
        handleSecureUpload(w, r, f)
  \/ \E w \in SecureHonest, r \in OneRand, f \in PutFaults :
        handleSecureUploadChunked(w, r, f)

SpecFault == Init /\ [][NextFault]_vars

(***************************************************************************)
(* Regular uploads on concurrent connections: handleUpload and store.put   *)
(* followed one file operation at a time, each connection in its own       *)
(* goroutine.  No lock is held except the index lock inside store.put.     *)
(* A data file is a sequence of frames; the chunks of this specification   *)
(* have one size, so a frame offset is a byte offset.                      *)
(***************************************************************************)
\* connections the accept loop has handed to goroutines at the same time
MaxConns == 2

ConnIDs == 1..MaxConns

\* a sealed chunk of the size of ChunkP with other content
ChunkR(key) == Frame(4, Seal(key, Plain(9, "r")))

\* a frame-sized run of zero bytes: what a write past the end leaves behind
ZeroFrame == Frame(0, Junk(0))

ConcBodies(key) == {<<ChunkP(key)>>, <<ChunkR(key), ChunkP(key)>>, <<ChunkJ>>}

\* the upload requests of the concurrent connections
ConcUploads ==
  UNION { {HonestUpload(c, cs) : cs \in ConcBodies(deriveKey(c))} : c \in WireCodes }

\* the locals of a handleUpload goroutine after os.Create of its data file:
\* request, position, chunks written (the offset of df), running size, the
\* record it builds; unlinked tells that the path of df has been removed
\* since; ok and last are observations (answered OK, latest index update)
Conn(w) ==
  [w |-> w, pc |-> "loop", i |-> 0, plainCount |-> 0, unlinked |-> FALSE,
   blob |-> StoredBlob(<<>>, <<>>, NoNonce, NoSealed, 0, 0, FALSE, FALSE, 0),
   ok |-> FALSE, last |-> FALSE]

\* df.Write of one frame at frame offset pos
WriteAt(file, pos, frame) ==
  IF pos < Len(file) THEN [file EXCEPT ![pos + 1] = frame]
  ELSE file \o [j \in 1..(pos - Len(file)) |-> ZeroFrame] \o <<frame>>

\* os.Remove(dataPath) by connection k: the name goes, and every descriptor
\* still open on that file now refers to a file without a name
removeDataPath(k) ==
  /\ dataFiles' = MapDel(dataFiles, conns[k].w.code)
  /\ conns' = [j \in DOMAIN conns |->
                 IF j = k THEN [conns[j] EXCEPT !.pc = "done"]
                 ELSE IF conns[j].pc = "loop" /\ conns[j].w.code = conns[k].w.code
                 THEN [conns[j] EXCEPT !.unlinked = TRUE]
                 ELSE conns[j]]
  /\ resp' = Reply("upload", NoIP, conns[k].w.code, StatusError, -1, <<>>)

\* handleUpload up to os.Create(dataPath): the header checks, then the data
\* file is created or, when the path exists, truncated
uploadOpen(k, w) ==
  /\ k \notin DOMAIN conns
  /\ IF ~w.complete \/ headerTooLarge(w.totalPlainLen) \/ NameRejected(Base(w.name))
     THEN /\ resp' = Reply("upload", NoIP, w.code, StatusError, -1, <<>>)
          /\ UNCHANGED <<dataFiles, conns>>
     ELSE /\ dataFiles' = MapPut(dataFiles, w.code, <<>>)
          /\ conns' = MapPut(conns, k, Conn(w))
          /\ UNCHANGED resp
  /\ UNCHANGED <<now, index, indexFile, blobFiles, attempts, banned, reqLog, sel>>

\* one round of the chunk loop
uploadChunk(k) ==
  /\ k \in DOMAIN conns /\ conns[k].pc = "loop" /\ conns[k].i < conns[k].w.numChunks
  /\ LET c == conns[k]
         w == c.w
         short == c.i + 1 > Len(w.chunks)
         frame == w.chunks[c.i + 1]
         pc1 == AddU64(c.plainCount, frame.sealedLen - TagLen)
     IN  IF short \/ frame.sealedLen < TagLen
            \/ (MaxBlobSize > 0 /\ Int64(pc1) > MaxBlobSize)
         THEN removeDataPath(k)
         ELSE /\ dataFiles' = IF c.unlinked THEN dataFiles
                              ELSE MapPut(dataFiles, w.code,
                                          WriteAt(dataFiles[w.code], c.i, frame))
              /\ conns' = [conns EXCEPT ![k].i = c.i + 1, ![k].plainCount = pc1]
              /\ UNCHANGED resp
  /\ UNCHANGED <<now, index, indexFile, blobFiles, attempts, banned, reqLog, sel>>

\* df.Close, the length test, and the record with CreatedAt = time.Now()
uploadClose(k) ==
  /\ k \in DOMAIN conns /\ conns[k].pc = "loop" /\ conns[k].i >= conns[k].w.numChunks
  /\ LET c == conns[k]
         w == c.w
     IN  IF lengthMismatch(c.plainCount, w.totalPlainLen)
         THEN removeDataPath(k)
         ELSE /\ conns' = [conns EXCEPT
                             ![k].pc = "put",
                             ![k].blob = StoredBlob(Base(w.name), w.checksum, NoNonce,
                                                    NoSealed, w.totalPlainLen,
                                                    w.numChunks, TRUE, FALSE, now)]
              /\ UNCHANGED <<dataFiles, resp>>
  /\ UNCHANGED <<now, index, indexFile, blobFiles, attempts, banned, reqLog, sel>>

\* store.put, first half: <code>.blob is created, encoded and closed
putBlobFile(k) ==
  /\ k \in DOMAIN conns /\ conns[k].pc = "put"
  /\ blobFiles' = MapPut(blobFiles, conns[k].w.code, conns[k].blob)
  /\ conns' = [conns EXCEPT ![k].pc = "index"]
  /\ UNCHANGED <<now, index, indexFile, dataFiles, attempts, banned, resp, reqLog, sel>>

\* store.put, second half, under s.mu: the index insert and saveIndex
putIndex(k) ==
  /\ k \in DOMAIN conns /\ conns[k].pc = "index"
  /\ index' = MapPut(index, conns[k].w.code, conns[k].blob.CreatedAt)
  /\ indexFile' = MapPut(index, conns[k].w.code, conns[k].blob.CreatedAt)
  /\ conns' = [j \in DOMAIN conns |->
                 IF j = k THEN [conns[j] EXCEPT !.pc = "reply", !.last = TRUE]
                 ELSE IF conns[j].w.code = conns[k].w.code
                 THEN [conns[j] EXCEPT !.last = FALSE]
                 ELSE conns[j]]
  /\ UNCHANGED <<now, blobFiles, dataFiles, attempts, banned, resp, reqLog, sel>>

\* SendStatus(conn, StatusOK)
uploadReply(k) ==
  /\ k \in DOMAIN conns /\ conns[k].pc = "reply"
  /\ resp' = Reply("upload", NoIP, conns[k].w.code, StatusOK, -1,
                   <<Chunked(conns[k].blob.Name, conns[k].w.totalPlainLen,
                             conns[k].w.numChunks, conns[k].w.checksum,
                             SubSeq(conns[k].w.chunks, 1, conns[k].w.numChunks))>>)
  /\ conns' = [conns EXCEPT ![k].pc = "done", ![k].ok = TRUE]
  /\ UNCHANGED <<now, storeVars, attempts, banned, reqLog, sel>>

NextConc ==
  \/ \E k \in ConnIDs, w \in ConcUploads : uploadOpen(k, w)
  \/ \E k \in ConnIDs : uploadChunk(k)
  \/ \E k \in ConnIDs : uploadClose(k)
  \/ \E k \in ConnIDs : putBlobFile(k)
  \/ \E k \in ConnIDs : putIndex(k)
  \/ \E k \in ConnIDs : uploadReply(k)
  \/ Tick(MaxTime)

SpecConc == Init /\ [][NextConc]_vars

(***************************************************************************)
(* rateLimiter.allow called from concurrent goroutines (TCP and HTTP),     *)
(* followed one statement at a time.                                       *)
(***************************************************************************)
\* download goroutines that call allow at the same time
MaxCallers == 3

Callers == 1..MaxCallers

\* the locals of a goroutine that is about to call rl.allow(ip): position,
\* now, the entry e, the count it read; seq and result are observations
\* (the order in which the lock was taken, the value returned)
Caller(ip, surface) ==
  [ip |-> ip, surface |-> surface, pc |-> "call", t |-> 0,
   e |-> rlEntry(0, 0), c |-> 0, seq |-> 0, result |-> FALSE]

\* a mutex that never makes a caller wait
muNeverHeld == TRUE

\* rl.mu is free: no goroutine is between Lock and the deferred Unlock
muFree == \A j \in DOMAIN conns : conns[j].pc \in {"call", "done"}

\* a download handler, TCP or HTTP, reaches its call of rl.allow
allowCall(g, ip, surface) ==
  /\ g \notin DOMAIN conns
  /\ conns' = MapPut(conns, g, Caller(ip, surface))
  /\ UNCHANGED <<now, storeVars, attempts, banned, resp, reqLog, sel>>

\* rl.mu.Lock(); now := time.Now()
allowLock(g) ==
  /\ g \in DOMAIN conns /\ conns[g].pc = "call"
  /\ muFree
  /\ conns' = [conns EXCEPT
                 ![g].pc = "ban", ![g].t = now,
                 ![g].seq = 1 + Cardinality({j \in DOMAIN conns : conns[j].seq > 0})]
  /\ UNCHANGED <<now, storeVars, attempts, banned, resp, reqLog, sel>>

\* the test of rl.banned[ip]
allowBan(g) ==
  /\ g \in DOMAIN conns /\ conns[g].pc = "ban"
  /\ LET ip == conns[g].ip
     IN  IF ip \in DOMAIN banned /\ conns[g].t < banned[ip]
         THEN /\ conns' = [conns EXCEPT ![g].pc = "done", ![g].result = FALSE]
              /\ UNCHANGED banned
         ELSE /\ banned' = MapDel(banned, ip)
              /\ conns' = [conns EXCEPT ![g].pc = "entry"]
  /\ UNCHANGED <<now, storeVars, attempts, resp, reqLog, sel>>

\* e := rl.attempts[ip], replaced by a fresh entry when nil or too old
allowEntry(g) ==
  /\ g \in DOMAIN conns /\ conns[g].pc = "entry"
  /\ LET ip == conns[g].ip
         fresh == ip \notin DOMAIN attempts
                    \/ conns[g].t - attempts[ip].windowStart > RateLimitWindow
         e == IF fresh THEN rlEntry(0, conns[g].t) ELSE attempts[ip]
     IN  /\ attempts' = MapPut(attempts, ip, e)
         /\ conns' = [conns EXCEPT ![g].pc = "read", ![g].e = e]
  /\ UNCHANGED <<now, storeVars, banned, resp, reqLog, sel>>

\* e.count++, the read
allowRead(g) ==
  /\ g \in DOMAIN conns /\ conns[g].pc = "read"
  /\ conns' = [conns EXCEPT
                 ![g].pc = "write",
                 ![g].c = IF conns[g].ip \in DOMAIN attempts
                          THEN attempts[conns[g].ip].count ELSE conns[g].e.count]
  /\ UNCHANGED <<now, storeVars, attempts, banned, resp, reqLog, sel>>

\* e.count++, the write
allowWrite(g) ==
  /\ g \in DOMAIN conns /\ conns[g].pc = "write"
  /\ attempts' = MapPut(attempts, conns[g].ip,
                        rlEntry(conns[g].c + 1, conns[g].e.windowStart))
  /\ conns' = [conns EXCEPT ![g].pc = "verdict"]
  /\ UNCHANGED <<now, storeVars, banned, resp, reqLog, sel>>

\* the overflow test, the return value and the deferred Unlock
allowVerdict(g) ==
  /\ g \in DOMAIN conns /\ conns[g].pc = "verdict"
  /\ LET ip == conns[g].ip
     IN  IF conns[g].c + 1 > RateLimitAttempts
         THEN /\ banned' = MapPut(banned, ip, conns[g].t + BanDuration)
              /\ attempts' = MapDel(attempts, ip)
              /\ conns' = [conns EXCEPT ![g].pc = "done", ![g].result = FALSE]
         ELSE /\ conns' = [conns EXCEPT ![g].pc = "done", ![g].result = TRUE]
              /\ UNCHANGED <<attempts, banned>>
  /\ UNCHANGED <<now, storeVars, resp, reqLog, sel>>

NextMu ==
  \/ \E g \in Callers, ip \in IPsRL, surface \in {"tcp", "web"} : allowCall(g, ip, surface)
  \/ \E g \in Callers : allowLock(g)
  \/ \E g \in Callers : allowBan(g)
  \/ \E g \in Callers : allowEntry(g)
  \/ \E g \in Callers : allowRead(g)
  \/ \E g \in Callers : allowWrite(g)
  \/ \E g \in Callers : allowVerdict(g)
  \/ Tick(MaxTime)

SpecMu == Init /\ [][NextMu]_vars

(***************************************************************************)
(* The probe fan-out of tryServersFromList, one goroutine step at a time.  *)
(***************************************************************************)
\* a results channel one place short of the server list
resultsCapShort == MaxServers - 1

\* make(chan probeResult, 10): one place per slot of the server list
resultsCap == MaxServers

\* what the probes of the fan-out meet: a refused dial, a slow and a fast
\* server with room for the file
FanRuns ==
  {run \in ProbeRuns :
     /\ run.free = ProbeFileSize /\ run.payloadLen = 1024
     /\ \/ run.io = "dial" /\ run.elapsed = 0
        \/ run.io = "ok" /\ run.elapsed \in {1, 2}}

\* the lists fetchServerList returns: slot 0 is never empty
ServerLists == {present \in SUBSET Candidates : 0 \in present}

\* the state of tryServersFromList after the loop over addrs and the start
\* of the goroutine that waits and closes; sent counts a task's sends
FanOut(present) ==
  [present |-> present,
   tasks |-> [id \in present |-> [pc |-> "probe", r |-> probeResult(id, ZeroSpeed, FALSE),
                                  sent |-> 0]],
   wg |-> Cardinality(present),
   results |-> <<>>,
   closed |-> FALSE,
   best |-> probeResult(0, ZeroSpeed, FALSE),
   received |-> 0,
   loop |-> "ranging"]

\* wg.Add(1) and go func for every non-empty slot, then go wg.Wait/close
fanStart(present) ==
  /\ DOMAIN conns = {}
  /\ conns' = FanOut(present)
  /\ UNCHANGED <<now, storeVars, attempts, banned, resp, reqLog, sel>>

Fanned == DOMAIN conns # {}

\* a task's probeServer returns
fanProbe(id, run) ==
  /\ Fanned /\ id \in conns.present /\ conns.tasks[id].pc = "probe"
  /\ conns' = [conns EXCEPT !.tasks[id].pc = "send",
                            !.tasks[id].r = probeServer(id, run)]
  /\ UNCHANGED <<now, storeVars, attempts, banned, resp, reqLog, sel>>

\* results <- probeResult{...}: waits while the buffer is full
fanSend(id) ==
  /\ Fanned /\ id \in conns.present /\ conns.tasks[id].pc = "send"
  /\ Len(conns.results) < resultsCap
  /\ conns' = [conns EXCEPT !.tasks[id].pc = "sent",
                            !.tasks[id].sent = @ + 1,
                            !.results = Append(@, conns.tasks[id].r)]
  /\ UNCHANGED <<now, storeVars, attempts, banned, resp, reqLog, sel>>

\* the deferred wg.Done()
fanDone(id) ==
  /\ Fanned /\ id \in conns.present /\ conns.tasks[id].pc = "sent"
  /\ conns' = [conns EXCEPT !.tasks[id].pc = "done", !.wg = @ - 1]
  /\ UNCHANGED <<now, storeVars, attempts, banned, resp, reqLog, sel>>

\* wg.Wait() returns and close(results)
fanClose ==
  /\ Fanned /\ ~conns.closed /\ conns.wg = 0
  /\ conns' = [conns EXCEPT !.closed = TRUE]
  /\ UNCHANGED <<now, storeVars, attempts, banned, resp, reqLog, sel>>

\* one round of for r := range results
fanReceive ==
  /\ Fanned /\ conns.loop = "ranging" /\ Len(conns.results) > 0
  /\ conns' = [conns EXCEPT !.results = Tail(@),
                            !.best = pickBest(@, Head(conns.results)),
                            !.received = @ + 1]
  /\ UNCHANGED <<now, storeVars, attempts, banned, resp, reqLog, sel>>

\* the range ends: the channel is closed and drained
fanLoopEnds ==
  /\ Fanned /\ conns.loop = "ranging" /\ Len(conns.results) = 0 /\ conns.closed
  /\ conns' = [conns EXCEPT !.loop = "ended"]
  /\ UNCHANGED <<now, storeVars, attempts, banned, resp, reqLog, sel>>

NextFan ==
  \/ \E present \in ServerLists : fanStart(present)
  \/ \E id \in Candidates, run \in FanRuns : fanProbe(id, run)
  \/ \E id \in Candidates : fanSend(id)
  \/ \E id \in Candidates : fanDone(id)
  \/ fanClose
  \/ fanReceive
  \/ fanLoopEnds

\* every goroutine that can take a step takes one in the end; probeServer
\* returns because its dial and its reads carry deadlines
SpecFan == Init /\ [][NextFan]_vars /\ WF_vars(NextFan)

(***************************************************************************)
(* GET /get on regular chunked blobs whose chunks do not all open.         *)
(***************************************************************************)
\* a chunk of 10 plaintext bytes sealed under a key that is not the code's
ChunkX == Frame(2, Seal(ExtKey, Plain(10, "x")))

\* two-chunk uploads: both chunks sealed under the code's key, the second
\* not, the first not; handleUpload stores the frames as they arrive
WebUploads ==
  UNION { {HonestUpload(c, cs) :
             cs \in {<<ChunkP(deriveKey(c)), ChunkQ(deriveKey(c))>>,
                     <<ChunkP(deriveKey(c)), ChunkX>>,
                     <<ChunkX, ChunkP(deriveKey(c))>>}}
          : c \in OneCode }

NextWeb ==
  \/ \E w \in WebUploads : handleUpload(w, "none")
  \/ \E ip \in IPs, code \in WebCodes(OneCode) : WebDownload(ip, code)
  \/ Tick(MaxTime)

SpecWeb == Init /\ [][NextWeb]_vars

(***************************************************************************)
(* The sweeper goroutine one call at a time, next to uploads.              *)
(***************************************************************************)
\* the sweeper is inside cleanupExpired, past the locked collection
Sweeping == DOMAIN conns # {}

\* cleanupExpired up to s.mu.Unlock(): the expired codes are collected
sweepCollect ==
  /\ ~Sweeping
  /\ conns' = IF expiredCodes(Store, now) = {} THEN NoConns
              ELSE [expired |-> expiredCodes(Store, now)]
  /\ resp' = Idle("sweep")
  /\ UNCHANGED <<now, storeVars, attempts, banned, reqLog, sel>>

\* one round of the loop over expired: s.remove(code)
sweepRemove(code) ==
  /\ Sweeping /\ code \in conns.expired
  /\ SetStore(remove(Store, code))
  /\ conns' = IF conns.expired = {code} THEN NoConns
              ELSE [expired |-> conns.expired \ {code}]
  /\ resp' = Idle("sweep")
  /\ UNCHANGED <<now, attempts, banned, reqLog, sel>>

NextSweep ==
  \/ \E w \in FaultUploads : handleUpload(w, "none")
  \/ sweepCollect
  \/ \E code \in WireCodes : sweepRemove(code)
  \/ Tick(MaxTime)

SpecSweep == Init /\ [][NextSweep]_vars

C2_IndexedCodesHaveFiles ==
  \A c \in DOMAIN index :
     /\ c \in DOMAIN blobFiles
     /\ blobFiles[c].Chunked => c \in DOMAIN dataFiles

\* sum of (sealedLen - 16) over the frames of a data file
RECURSIVE SumSealed(_)
SumSealed(frames) ==
  IF frames = <<>> THEN 0
  ELSE (frames[1].sealedLen - TagLen) + SumSealed(Tail(frames))

\* C3 (as stated): when the regular or the secure chunked handler has just
\* published a blob, the sum of (sealedLen - 16) over the frames of its data
\* file equals the totalPlainLen of its record.
C3_PublishedSumEqualsTotal ==
  (resp.op \in {"upload", "securechunked"} /\ resp.status = StatusOK)
    => SumSealed(dataFiles[resp.code]) = blobFiles[resp.code].TotalPlainLen

\* an accepted regular chunked upload, and next a complete TCP download
\* request for the code it published
UploadThenDownload ==
  /\ resp.op = "upload" /\ resp.status = StatusOK
  /\ resp'.op = "download" /\ resp'.code = resp.code

\* the download answers OK with the chunked format and the uploaded base
\* name, totalPlainLen, numChunks, checksum and frames
SameAsUploaded ==
  /\ resp'.status = StatusOK
  /\ resp'.format = 1
  /\ resp'.payload = resp.payload

Served ==
  \/ resp.op = "download" /\ resp.status = StatusOK
  \/ resp.op = "webget" /\ resp.status = HttpOK

\* C5: neither the TCP download nor GET /get serves a blob whose age exceeds
\* StorageDuration, swept or not.
C5_NeverServedWhenExpired ==
  Served => /\ resp.code \in DOMAIN index
            /\ now - index[resp.code] <= StorageDuration

\* a download of a blob that is still on disk past its retention is refused
C5_Witness ==
  /\ resp.op \in {"download", "webget"}
  /\ resp.status \in {StatusNotFound, HttpFound}
  /\ resp.code \in DOMAIN blobFiles
  /\ now - blobFiles[resp.code].CreatedAt > StorageDuration

\* a TCP download that passed the limiter, for a stored code of exactly the
\* retention age
DownloadAtBoundary ==
  /\ resp.op = "download" /\ resp.status # StatusError
  /\ resp.code \in DOMAIN index /\ resp.code \in DOMAIN blobFiles
  /\ now - index[resp.code] = StorageDuration

\* C6 (as stated): a download of a blob that is exactly StorageDuration old
\* returns NotFound.
C6_BoundaryNotFound == DownloadAtBoundary => resp.status = StatusNotFound

\* C6 (amended): a download of a blob that is exactly StorageDuration old is
\* still answered OK; NotFound is the answer once the age exceeds it.
C6_BoundaryServed ==
  /\ DownloadAtBoundary => resp.status = StatusOK
  /\ (resp.op = "download" /\ resp.status = StatusOK)
       => now - index[resp.code] <= StorageDuration

C6_Witness == DownloadAtBoundary /\ resp.status = StatusOK /\ StorageDuration > 0

\* the requests of ip that the log holds, by position
EventsOf(ip) == {i \in 1..Len(reqLog) : reqLog[i].ip = ip}

LastOf(ip) == CHOOSE i \in EventsOf(ip) : \A j \in EventsOf(ip) : j <= i

\* C7: when allow has returned true for an IP its counter is at most max, and
\* no attempts entry with a count above max is ever left in the map.
C7_CountAtMostMax ==
  /\ \A ip \in DOMAIN attempts :
        attempts[ip].count >= 1 /\ attempts[ip].count <= RateLimitAttempts
  /\ \A ip \in IPsRL :
        (EventsOf(ip) # {} /\ reqLog[LastOf(ip)].ok)
          => ip \in DOMAIN attempts /\ attempts[ip].count <= RateLimitAttempts

\* one IP sits at the maximum after an allowed attempt, the other was banned
\* and has no entry
C7_Witness ==
  \E ip \in IPsRL, other \in IPsRL :
     /\ EventsOf(ip) # {} /\ reqLog[LastOf(ip)].ok
     /\ ip \in DOMAIN attempts /\ attempts[ip].count = RateLimitAttempts
     /\ other \in DOMAIN banned /\ other \notin DOMAIN attempts

\* allowed requests of ip made at an instant of lo..hi
AllowedIn(ip, lo, hi) ==
  Cardinality({i \in EventsOf(ip) : reqLog[i].ok /\ lo <= reqLog[i].t /\ reqLog[i].t <= hi})

\* C8 (as stated): the limiter is a sliding window: for every IP, every
\* interval of length window holds at most max attempts that allow let pass.
C8_SlidingWindow ==
  \A ip \in IPsRL, s \in 0..MaxTimeRL :
     AllowedIn(ip, s, s + RateLimitWindow - 1) <= RateLimitAttempts

\* C8 (amended): the limiter counts per fixed window that the first attempt
\* opens; with ban >= window, an interval of length window holds at most
\* 2 * max allowed attempts of one IP.
C8_FixedWindow ==
  BanDuration >= RateLimitWindow =>
    \A ip \in IPsRL, s \in 0..MaxTimeRL :
       AllowedIn(ip, s, s + RateLimitWindow) <= 2 * RateLimitAttempts

\* two adjacent windows have let more than max attempts of one IP pass
\* inside less than one window length
C8_Witness ==
  \E ip \in IPsRL, s \in 0..MaxTimeRL :
     /\ AllowedIn(ip, s, s + RateLimitWindow - 1) > RateLimitAttempts
     /\ ip \in DOMAIN attempts /\ attempts[ip].windowStart > s

\* the request that a step adds to the log
Newest == reqLog'[Len(reqLog')]

BanActive(ip) == ip \in DOMAIN banned /\ now < banned[ip]

\* ip has used up the max attempts of a window that is still open
WindowFull(ip) ==
  /\ ~BanActive(ip)
  /\ ip \in DOMAIN attempts
  /\ attempts[ip].count = RateLimitAttempts
  /\ now - attempts[ip].windowStart <= RateLimitWindow

\* C9: the (max+1)-th attempt inside one window is denied, records a ban
\* until now + ban and deletes the counter of the IP; every further attempt
\* before the ban expires is denied and leaves the limiter as it is.
C9_OverflowBans ==
  [][Len(reqLog') > Len(reqLog) =>
       /\ WindowFull(Newest.ip) =>
            /\ ~Newest.ok
            /\ Newest.ip \in DOMAIN banned'
            /\ banned'[Newest.ip] = now + BanDuration
            /\ Newest.ip \notin DOMAIN attempts'
       /\ BanActive(Newest.ip) =>
            /\ ~Newest.ok
            /\ banned' = banned
            /\ attempts' = attempts]_vars

\* an IP was denied at the overflow and denied again at a later instant,
\* its ban still running
C9_Witness ==
  \E ip \in IPsRL :
     /\ BanActive(ip)
     /\ \E i \in EventsOf(ip), j \in EventsOf(ip) :
           /\ i < j /\ ~reqLog[i].ok /\ ~reqLog[j].ok
           /\ reqLog[i].t + BanDuration = banned[ip]
           /\ reqLog[j].t > reqLog[i].t
     /\ Cardinality({i \in EventsOf(ip) : reqLog[i].ok}) = RateLimitAttempts

\* requests of ip, on either surface, made at instant from or later
CountSince(ip, from) == Cardinality({i \in EventsOf(ip) : reqLog[i].t >= from})

\* the denied request i recorded a ban: it is the first of its IP or follows
\* an allowed one
Banning(i) ==
  /\ ~reqLog[i].ok
  /\ \A j \in EventsOf(reqLog[i].ip) :
        (j < i /\ \A k \in EventsOf(reqLog[i].ip) : ~(j < k /\ k < i)) => reqLog[j].ok

\* C10: every download attempt, TCP 'D' or GET /get, consumes exactly one
\* attempt of one limiter shared by both surfaces, and an IP banned through
\* either surface is denied on both until the ban expires.
C10_SharedLimiter ==
  /\ \A ip \in DOMAIN attempts :
        attempts[ip].count = CountSince(ip, attempts[ip].windowStart)
  /\ \A i \in 1..Len(reqLog), k \in 1..Len(reqLog) :
        (/\ i < k /\ reqLog[k].ip = reqLog[i].ip /\ Banning(i)
         /\ reqLog[k].t < reqLog[i].t + BanDuration)
          => ~reqLog[k].ok

\* a ban recorded by a request on one surface has denied a request on the
\* other, after allowed requests on both
C10_Witness ==
  \E i \in 1..Len(reqLog), k \in 1..Len(reqLog) :
     /\ i < k /\ reqLog[k].ip = reqLog[i].ip /\ Banning(i)
     /\ reqLog[k].surface # reqLog[i].surface /\ ~reqLog[k].ok
     /\ \E a \in EventsOf(reqLog[i].ip), b \in EventsOf(reqLog[i].ip) :
           /\ a < b /\ b < i /\ reqLog[a].ok /\ reqLog[b].ok
           /\ reqLog[a].surface # reqLog[b].surface

\* the operations of handleConn that are not downloads
UploadOps == {"upload", "secure", "securechunked", "test"}

\* C11: the regular upload, the secure uploads and the probe never call the
\* limiter: their steps leave attempts and banned as they are, whatever the
\* limiter holds for the caller.
C11_UploadsNotRateLimited ==
  [][resp'.op \in UploadOps => attempts' = attempts /\ banned' = banned]_vars

\* an upload has been answered OK while every client IP is banned for
\* downloads
C11_Witness ==
  /\ resp.op \in {"upload", "secure", "securechunked"}
  /\ resp.status = StatusOK
  /\ \A ip \in IPs : BanActive(ip)

\* a regular upload request as an unmodified client sends it
WellFormed(w) ==
  /\ w.complete /\ ~NameRejected(Base(w.name))
  /\ w.numChunks = Len(w.chunks)
  /\ \A i \in 1..Len(w.chunks) : w.chunks[i].sealedLen >= TagLen
  /\ w.totalPlainLen = PlainSum(w.chunks)

\* the well-formed regular upload requests of n plaintext bytes
SizedRequests(n) == {w \in UpRequests : WellFormed(w) /\ w.totalPlainLen = n}

AtCap == SizedRequests(MaxBlobSize)
OverCap == SizedRequests(MaxBlobSize + 1)

\* the step is handleUpload on a well-formed request of exactly MaxBlobSize
\* bytes, or of one byte more
UploadAtCap == \E w \in AtCap : handleUpload(w, "none")
UploadOverCap == \E w \in OverCap : handleUpload(w, "none")

NoFilesOf(code) == code \notin DOMAIN dataFiles' /\ code \notin DOMAIN blobFiles'

\* C12 (as stated): a regular upload of exactly MaxBlobSize plaintext bytes
\* is answered OK; one of MaxBlobSize + 1 bytes is answered with the error
\* status and afterwards its code has neither a .dat nor a .blob file.
C12_CapBoundary ==
  [][/\ UploadAtCap => resp'.status = StatusOK
     /\ UploadOverCap =>
          resp'.status = StatusError /\ NoFilesOf(resp'.code)]_vars

\* C12 (amended): a regular upload of exactly MaxBlobSize plaintext bytes is
\* answered OK; one of MaxBlobSize + 1 bytes is answered with the error
\* status and writes nothing: the index and the files are as before, so a
\* code that had no files has none, and a blob stored earlier under the same
\* code stays.
C12_CapBoundaryNothingWritten ==
  [][/\ UploadAtCap => resp'.status = StatusOK
     /\ UploadOverCap =>
          resp'.status = StatusError /\ UNCHANGED storeVars]_vars

\* a blob of exactly MaxBlobSize plaintext bytes is stored
C12_Witness ==
  /\ resp.op = "upload" /\ resp.status = StatusOK
  /\ blobFiles[resp.code].TotalPlainLen = MaxBlobSize
  /\ SumSealed(dataFiles[resp.code]) = MaxBlobSize

\* C13 (as stated): no chunked blob is ever published with a header total
\* above MaxBlobSize, whatever 64-bit value the header carries, by the
\* regular or by the secure chunked handler.
C13_NoTotalAboveCap ==
  \A c \in DOMAIN blobFiles :
     blobFiles[c].Chunked => blobFiles[c].TotalPlainLen <= MaxBlobSize

\* the step is a chunked upload, regular or secure, whose header total is
\* one more or one less than the plaintext bytes of its chunks
Mismatched(w) ==
  /\ w.complete /\ ~NameRejected(Base(w.name)) /\ w.numChunks = Len(w.chunks)
  /\ w.totalPlainLen \in {PlainSum(w.chunks) + 1, PlainSum(w.chunks) - 1}

MismatchedRegular == {w \in UpRequests : Mismatched(w)}
MismatchedSecure == {w \in WideSecureChunked : Mismatched(w)}

MismatchedUpload ==
  \/ \E w \in MismatchedRegular : handleUpload(w, "none")
  \/ \E w \in MismatchedSecure, r \in OneRand : handleSecureUploadChunked(w, r, "none")

\* C14 (as stated): a chunked upload whose header total is X while its chunks
\* sum to X+1 or X-1 is answered with the error status, is not added to the
\* index, and leaves no .dat and no .blob file for its code.
C14_MismatchRejected ==
  [][MismatchedUpload =>
       /\ resp'.status = StatusError
       /\ index' = index
       /\ resp'.code # NoCode => NoFilesOf(resp'.code)]_vars

IsDigit(ch) == \E d \in 0..9 : ch = DigitChar(d)

CodeShape(c) == Len(c) = CodeLength /\ IsDigit(c[1])

\* C15 (as stated): every code in the index, and every code a .blob or .dat
\* path is built from, has exactly 6 characters and starts with a decimal
\* digit.
C15_CodesAreSixDigitLed ==
  \A c \in DOMAIN index \cup DOMAIN blobFiles \cup DOMAIN dataFiles :
     /\ CodeShape(c)
     /\ Len(blobPath(c)) = CodeLength + 5
     /\ Len(dataPath(c)) = CodeLength + 4

\* the step is the regular upload of a client that chose server id
ClientUpload(id) == \E w \in HonestUploads(ClientCodes(id)) : handleUpload(w, "none")

\* C16: the code of every successful upload starts with a decimal digit: the
\* id of the server that minted it (secure uploads), or the server id the
\* client chose when it is a regular upload of runClientSend.
C16_FirstDigitIsServerID ==
  [][/\ \A id \in ClientIDs :
          (ClientUpload(id) /\ resp'.status = StatusOK)
            => /\ CodeShape(resp'.code) /\ resp'.code[1] = DigitChar(id)
               /\ resp'.code \in DOMAIN index'
     /\ (resp'.op \in {"secure", "securechunked"} /\ resp'.status = StatusOK)
            => /\ CodeShape(resp'.code) /\ resp'.code[1] = DigitChar(ServerID)
               /\ resp'.code \in DOMAIN index']_vars

\* a secure upload got its code from this server while a code of a client
\* that chose another id is stored
C16_Witness ==
  /\ resp.op \in {"secure", "securechunked"} /\ resp.status = StatusOK
  /\ resp.code[1] = DigitChar(ServerID)
  /\ \E c \in DOMAIN index : CodeShape(c) /\ c[1] # DigitChar(ServerID)

\* C17 (as stated): after start-up no <code>.blob and no <code>.dat file of
\* a 6-character code that is missing from the index is left in the data
\* directory.
C17_NoOrphanSurvivesStartup ==
  resp.op = "restart" =>
    \A c \in DOMAIN blobFiles \cup DOMAIN dataFiles :
       Len(c) = CodeLength => c \in DOMAIN index

\* code is in the persisted index, within retention, with its files present
Unexpired(c) ==
  /\ c \in DOMAIN indexFile /\ now - indexFile[c] <= StorageDuration
  /\ c \in DOMAIN blobFiles
  /\ blobFiles[c].Chunked => c \in DOMAIN dataFiles

\* C18: a restart keeps every unexpired blob of the persisted index: it is in
\* the index afterwards and served with the same metadata and data; the
\* expired codes are removed, index entry and files.
C18_RestartPreservesUnexpired ==
  [][Restart =>
       \A c \in DOMAIN indexFile :
          /\ Unexpired(c) =>
               /\ c \in DOMAIN index' /\ index'[c] = indexFile[c]
               /\ getOk(Store', c, now)
               /\ blobFiles'[c] = blobFiles[c]
               /\ c \in DOMAIN dataFiles =>
                    c \in DOMAIN dataFiles' /\ dataFiles'[c] = dataFiles[c]
          /\ now - indexFile[c] > StorageDuration =>
               /\ c \notin DOMAIN index' /\ c \notin DOMAIN indexFile'
               /\ c \notin DOMAIN blobFiles' /\ c \notin DOMAIN dataFiles']_vars

\* after a restart a chunked blob of exactly the retention age is still
\* stored with its data file, and another code is gone
C18_Witness ==
  /\ resp.op = "restart"
  /\ \E c \in DOMAIN index :
        /\ blobFiles[c].Chunked /\ c \in DOMAIN dataFiles
        /\ now - index[c] = StorageDuration
  /\ Cardinality(DOMAIN index) = 1 /\ now > StorageDuration

\* the last upload answered OK is what its code now stands for
LaterUploadStored ==
  (resp.op \in {"upload", "secure", "securechunked"} /\ resp.status = StatusOK) =>
     /\ resp.code \in DOMAIN index /\ index[resp.code] = now
     /\ resp.code \in DOMAIN blobFiles
     /\ blobFiles[resp.code].CreatedAt = now
     /\ blobFiles[resp.code].Chunked = (resp.op # "secure")
     /\ blobFiles[resp.code].Secure = (resp.op # "upload")

\* C19 (as stated): publishing a code a second time leaves one blob, the
\* later one: one index entry and one metadata file that describes the later
\* upload, and once the sweeper has ticked no data file of the earlier upload
\* is left beside a later single-blob record.
C19_SecondPublishReplaces ==
  /\ LaterUploadStored
  /\ resp.op = "sweep" =>
       \A c \in DOMAIN index :
          (c \in DOMAIN blobFiles /\ ~blobFiles[c].Chunked) => c \notin DOMAIN dataFiles

\* code is stored and older than the retention window
Expired(c) == c \in DOMAIN index /\ now - index[c] > StorageDuration

\* C20: with a sweeper that keeps ticking, a blob whose age exceeds the
\* retention window is eventually destroyed, and the sweeper tick that meets
\* it removes its index entry, its metadata file and its data file.
C20_ExpiredEventuallyDestroyed ==
  /\ [][Sweep => \A c \in DOMAIN index :
                    Expired(c) => /\ c \notin DOMAIN index'
                                  /\ c \notin DOMAIN indexFile'
                                  /\ c \notin DOMAIN blobFiles'
                                  /\ c \notin DOMAIN dataFiles']_vars
  /\ \A c \in WireCodes : Expired(c) ~> ~Expired(c)

\* a chunked blob past its retention is still on disk, waiting for the sweep
C20_Witness ==
  \E c \in WireCodes :
     Expired(c) /\ c \in DOMAIN blobFiles /\ c \in DOMAIN dataFiles

\* the step is GET /get for a code whose metadata record has Secure set
WebGetOfSecure ==
  /\ resp'.op = "webget"
  /\ resp'.code \in DOMAIN blobFiles /\ blobFiles[resp'.code].Secure

\* the answer of the step is a redirect that carries an error and no body
RedirectWithError ==
  /\ resp'.status = HttpFound
  /\ Len(resp'.payload) = 1 /\ DOMAIN resp'.payload[1] = {"err"}

\* C21: GET /get never decrypts or returns a byte of a blob stored with
\* Secure set, chunked or not: the answer is a redirect with an error
\* message, and for a request that passes the limiter, the lookup and the
\* age test the message is the one that names the secure upload.
C21_WebNeverServesSecure ==
  [][WebGetOfSecure =>
       /\ RedirectWithError
       /\ (/\ allow(Limiter, resp'.ip, now).ok
           /\ getOk(Store, resp'.code, now)
           /\ ~Stale(blobFiles[resp'.code].CreatedAt, now))
            => resp'.payload = <<[err |-> "Secure upload"]>>]_vars

\* GET /get has refused a secure chunked blob whose data file is on disk
C21_Witness ==
  /\ resp.op = "webget" /\ resp.status = HttpFound
  /\ resp.payload = <<[err |-> "Secure upload"]>>
  /\ resp.code \in DOMAIN blobFiles
  /\ blobFiles[resp.code].Secure /\ blobFiles[resp.code].Chunked
  /\ resp.code \in DOMAIN dataFiles /\ Len(dataFiles[resp.code]) > 0

\* the format byte the protocol assigns to the flags (secure, chunked)
FormatOf(secure, chunked) ==
  CASE ~secure /\ ~chunked -> 0
    [] ~secure /\ chunked -> 1
    [] secure /\ ~chunked -> 2
    [] secure /\ chunked -> 3

\* C22 (as stated): a TCP download that finds the blob answers OK followed
\* by exactly one format byte, the one the (secure, chunked) flags of the
\* record determine, for blobs of each of the three upload handlers.
C22_FormatByteFollowsOK ==
  (resp.op = "download" /\ resp.status = StatusOK) =>
     /\ resp.code \in DOMAIN blobFiles
     /\ resp.format = FormatOf(blobFiles[resp.code].Secure, blobFiles[resp.code].Chunked)

\* tryServersFromList has returned
SelectionOver == sel.outcome # "probing"

OkResults == {r \in sel.results : r.ok}

\* C23: server selection returns the candidate with the highest measured
\* rate among the probe results with ok set; a failed probe only drops its
\* candidate; when no probe is ok the call fails with the no-server-available
\* error and dials no server.
C23_SelectsFastest ==
  SelectionOver =>
    /\ (OkResults = {}) <=> (sel.outcome = "no server available")
    /\ sel.outcome = "no server available" => sel.dialed = {}
    /\ OkResults # {} =>
         /\ sel.best \in OkResults
         /\ \A r \in OkResults :
               r.speedBps.num * sel.best.speedBps.den
                 <= sel.best.speedBps.num * r.speedBps.den
         /\ sel.dialed = {sel.best.serverID}
         /\ sel.outcome = "connected" => sel.serverID = sel.best.serverID

\* the call returned a server other than the first while one probe had
\* failed and a slower one had succeeded
C23_Witness ==
  /\ sel.outcome = "connected" /\ sel.serverID # 0
  /\ \E r \in sel.results : ~r.ok
  /\ \E r \in OkResults : r.speedBps.num * sel.best.speedBps.den
                             < sel.best.speedBps.num * r.speedBps.den

\* the upload requests whose name field is empty
EmptyNamedRegular == {w \in UpRequests : w.name = <<>>}
EmptyNamedSecure == {w \in SecureUploads : w.name = <<>>}
EmptyNamedSecureChunked == {w \in WideSecureChunked : w.name = <<>>}

\* the step is an upload, of any of the three kinds, with an empty name
EmptyNameUpload ==
  \/ \E w \in EmptyNamedRegular : handleUpload(w, "none")
  \/ \E w \in EmptyNamedSecure, r \in OneRand : handleSecureUpload(w, r, "none")
  \/ \E w \in EmptyNamedSecureChunked, r \in OneRand :
        handleSecureUploadChunked(w, r, "none")

\* C24 (as stated): an upload whose name field is empty is rejected at
\* ingress: the server answers with the error status and stores nothing.
C24_EmptyNameRejected ==
  [][EmptyNameUpload => resp'.status = StatusError /\ UNCHANGED storeVars]_vars

\* the request passes every check that precedes os.Create of the data file
PastHeader(w) ==
  w.complete /\ ~headerTooLarge(w.totalPlainLen) /\ ~NameRejected(Base(w.name))

\* C25 (as stated): whenever a regular or secure chunked upload ends with
\* the error status after it has created <code>.dat, an error of store.put
\* included, that data file is gone when the connection closes.
C25_FailedUploadDeletesData ==
  [][/\ \A w \in FaultUploads, f \in PutFaults :
          (handleUpload(w, f) /\ PastHeader(w) /\ resp'.status = StatusError)
            => w.code \notin DOMAIN dataFiles'
     /\ \A w \in SecureHonest, r \in OneRand, f \in PutFaults :
          (handleSecureUploadChunked(w, r, f) /\ PastHeader(w)
           /\ resp'.status = StatusError)
            => generateCodeWithServerID(ServerID, r) \notin DOMAIN dataFiles']_vars

\* the step is an upload that passes every check and whose store.put fails
FaultyPut ==
  \/ \E w \in FaultUploads, f \in PutFaults \ {"none"} :
        /\ handleUpload(w, f) /\ PastHeader(w)
        /\ streamChunks(w.chunks, w.numChunks, 0, 0).ok
  \/ \E w \in SecureUploads, r \in OneRand, f \in PutFaults \ {"none"} :
        /\ handleSecureUpload(w, r, f)
        /\ w.complete /\ ~sealedTooLarge(w.sealed.len, MaxBlobSize)
        /\ ~NameRejected(Base(w.name))
  \/ \E w \in SecureHonest, r \in OneRand, f \in PutFaults \ {"none"} :
        /\ handleSecureUploadChunked(w, r, f) /\ PastHeader(w)
        /\ secureStreamChunks(w.chunks, w.numChunks, 0)

\* the step has answered an upload with OK
UploadAnsweredOK ==
  resp'.op \in {"upload", "secure", "securechunked"} /\ resp'.status = StatusOK

\* the blob of the answer is committed: metadata file, data file when
\* chunked, index entry and rewritten index file
Committed ==
  LET c == resp'.code
      sent == resp'.payload[1]
  IN  /\ c \in DOMAIN blobFiles'
      /\ blobFiles'[c].CreatedAt = now
      /\ blobFiles'[c].Name = sent.name
      /\ blobFiles'[c].PlaintextChecksum = sent.checksum
      /\ blobFiles'[c].Chunked = (resp'.op # "secure")
      /\ blobFiles'[c].Chunked =>
            /\ c \in DOMAIN dataFiles'
            /\ dataFiles'[c] = sent.frames
            /\ Len(dataFiles'[c]) = blobFiles'[c].NumChunks
      /\ c \in DOMAIN index' /\ index'[c] = now
      /\ c \in DOMAIN indexFile' /\ indexFile'[c] = now

\* C26: an upload handler sends OK (and, in secure mode, the code) only
\* after the publish has committed: the data file is completely written,
\* the metadata file is written, and the index insert and the index rewrite
\* are done without error; a store.put that fails is answered with the
\* error status.
C26_OKOnlyAfterCommit ==
  [][/\ UploadAnsweredOK => Committed
     /\ FaultyPut => resp'.status = StatusError]_vars

\* a chunked upload has been answered OK, its blob committed, while the
\* data file of another code is left without metadata file by a failed put
C26_Witness ==
  /\ resp.op \in {"upload", "securechunked"} /\ resp.status = StatusOK
  /\ resp.code \in DOMAIN indexFile /\ indexFile[resp.code] = now
  /\ Len(dataFiles[resp.code]) > 0
  /\ \E c \in DOMAIN dataFiles : c \notin DOMAIN blobFiles

\* the step is a TCP download; its caller, and whether its six code bytes
\* arrived, are in the answer
DownloadStep == resp'.op = "download"

CodeParsed == resp'.code # NoCode

\* C27 (as stated): the download handler parses the code before it consults
\* the limiter, and consults the limiter before the lookup: a request whose
\* code cannot be parsed ends before the limiter, and a request the limiter
\* denies ends before the store is looked at.
C27_ParseThenRateCheck ==
  [][DownloadStep =>
       /\ ~CodeParsed => attempts' = attempts /\ banned' = banned
       /\ ~allow(Limiter, resp'.ip, now).ok => UNCHANGED storeVars]_vars

\* C27 (amended): the order is RATE_CHECK, PARSE_CODE, LOOKUP: every
\* download connection consumes an attempt of its IP, whether or not its
\* code arrives; a denied request and a request without a code are answered
\* with the error status and never reach the store; NotFound and OK are
\* answers to allowed requests with a code.
C27_RateCheckThenParse ==
  [][DownloadStep =>
       /\ attempts' = allow(Limiter, resp'.ip, now).attempts
       /\ banned' = allow(Limiter, resp'.ip, now).banned
       /\ (~allow(Limiter, resp'.ip, now).ok \/ ~CodeParsed)
            => resp'.status = StatusError /\ UNCHANGED storeVars
       /\ resp'.status \in {StatusOK, StatusNotFound}
            => allow(Limiter, resp'.ip, now).ok /\ CodeParsed]_vars

\* a download connection that sent no code has been answered with the
\* error status, its IP banned as of this instant
C27_Witness ==
  /\ resp.op = "download" /\ resp.code = NoCode /\ resp.status = StatusError
  /\ resp.ip \in DOMAIN banned /\ banned[resp.ip] = now + BanDuration
  /\ resp.ip \notin DOMAIN attempts

\* code is stored and within its retention
StoredUnexpired(c) ==
  c \in DOMAIN index /\ ~Stale(index[c], now) /\ c \in DOMAIN blobFiles

\* the step leaves index entry, metadata file and data file of code alone
Untouched(c) ==
  /\ c \in DOMAIN index' /\ index'[c] = index[c]
  /\ c \in DOMAIN blobFiles' /\ blobFiles'[c] = blobFiles[c]
  /\ c \in DOMAIN dataFiles => c \in DOMAIN dataFiles' /\ dataFiles'[c] = dataFiles[c]

\* the step is an upload answered with the error status, a download on
\* either surface, or a probe
FailedUploadOrOtherConn ==
  \/ resp'.op \in {"upload", "secure", "securechunked"} /\ resp'.status = StatusError
  \/ resp'.op \in {"download", "webget", "test"}

\* C28 (as stated): a stored blob is mutated by no operation: an upload that
\* fails, or any other connection, never changes or removes the metadata
\* file, the data file or the index entry of a blob that is stored and
\* unexpired.
C28_StoredBlobUntouched ==
  [][FailedUploadOrOtherConn =>
       \A c \in DOMAIN index : StoredUnexpired(c) => Untouched(c)]_vars

\* the connections that hold the data file of code open for writing
Writers(code) ==
  {k \in DOMAIN conns :
     conns[k].pc = "loop" /\ ~conns[k].unlinked /\ conns[k].w.code = code}

\* C29 (as stated): each <code>.dat has one writer for its lifetime: under
\* any interleaving of upload connections, two with the same code included,
\* no two handlers have the same data file open for writing, and a data file
\* is not written once its blob is published.
C29_SingleWriter ==
  /\ [](\A code \in WireCodes : Cardinality(Writers(code)) <= 1)
  /\ [][\A c \in DOMAIN index \cap DOMAIN dataFiles :
          c \in DOMAIN dataFiles' /\ dataFiles'[c] = dataFiles[c]]_vars

\* connection k has been answered OK
Succeeded(k) == k \in DOMAIN conns /\ conns[k].pc = "done" /\ conns[k].ok

\* C30 (as stated): when two uploads with the same code run concurrently
\* and both succeed, then after both have finished the createdAt of the
\* index, the metadata file and the data file of the code all come from the
\* upload whose index update was last.
C30_LastWriteWinsConsistent ==
  \A k \in ConnIDs, j \in ConnIDs :
     (/\ k # j /\ Succeeded(k) /\ Succeeded(j)
      /\ conns[k].w.code = conns[j].w.code /\ conns[k].last)
       => LET c == conns[k].w.code
          IN  /\ index[c] = conns[k].blob.CreatedAt
              /\ blobFiles[c] = conns[k].blob
              /\ c \in DOMAIN dataFiles
              /\ dataFiles[c] = SubSeq(conns[k].w.chunks, 1, conns[k].w.numChunks)

\* the step adds a request to the log
Logged == Len(reqLog') > Len(reqLog)

\* C31: a ban entry is removed only by an allow call made at now >= until;
\* that call counts as the first attempt of a fresh window (count 1), so
\* with max >= 1 the first attempt at or after the end of a ban is allowed.
C31_BanClearedOnlyAtExpiry ==
  [][/\ \A ip \in DOMAIN banned :
          (ip \notin DOMAIN banned' \/ banned'[ip] # banned[ip])
            => Logged /\ Newest.ip = ip /\ now >= banned[ip]
     /\ (/\ Logged /\ Newest.ip \in DOMAIN banned
         /\ now >= banned[Newest.ip] /\ RateLimitAttempts >= 1)
          => /\ Newest.ok
             /\ Newest.ip \notin DOMAIN banned'
             /\ Newest.ip \in DOMAIN attempts'
             /\ attempts'[Newest.ip] = rlEntry(1, now)]_vars

\* an IP that was banned has been let through again at the very instant
\* its ban ended, and the ban entry is gone
C31_Witness ==
  \E i \in 1..Len(reqLog) :
     /\ i < Len(reqLog) /\ Banning(i)
     /\ reqLog[Len(reqLog)].ip = reqLog[i].ip
     /\ reqLog[Len(reqLog)].ok
     /\ reqLog[Len(reqLog)].t = reqLog[i].t + BanDuration
     /\ now = reqLog[Len(reqLog)].t
     /\ reqLog[i].ip \notin DOMAIN banned
     /\ attempts[reqLog[i].ip] = rlEntry(1, now)

\* no call of allow is between its first and its last statement
NoCallUnderWay == \A j \in DOMAIN conns : conns[j].pc \in {"call", "done"}

\* the callers that have returned from allow
Returned == {g \in DOMAIN conns : conns[g].pc = "done"}

\* the caller that took the lock as the n-th
NthCaller(n) == CHOOSE g \in DOMAIN conns : conns[g].seq = n

\* the limiter after the first n callers, one whole allow call after the
\* other in the order of the lock
RECURSIVE SeqLimiter(_)
SeqLimiter(n) ==
  IF n = 0 THEN [ok |-> TRUE, attempts |-> EmptyMap, banned |-> EmptyMap]
  ELSE allow(SeqLimiter(n - 1), conns[NthCaller(n)].ip, conns[NthCaller(n)].t)

Min(a, b) == IF a <= b THEN a ELSE b

\* C32: concurrent allow calls are totally ordered: whenever no call is
\* under way, the limiter and every returned value are those of the calls
\* made one after the other in the order of the lock; and when k calls of
\* one IP, all made at one instant on an empty limiter, have returned,
\* exactly min(k, max) of them have returned true.
C32_AllowIsSerialized ==
  NoCallUnderWay =>
    /\ attempts = SeqLimiter(Cardinality(Returned)).attempts
    /\ banned = SeqLimiter(Cardinality(Returned)).banned
    /\ \A g \in Returned : conns[g].result = SeqLimiter(conns[g].seq).ok
    /\ \A ip \in IPsRL :
          LET mine == {g \in DOMAIN conns : conns[g].ip = ip}
          IN  (mine \subseteq Returned /\ \A g \in mine, h \in mine : conns[g].t = conns[h].t)
                => Cardinality({g \in mine : conns[g].result})
                     = Min(Cardinality(mine), RateLimitAttempts)

\* max + 1 calls of one IP from both surfaces have returned, all made at
\* one instant: the last to take the lock was denied and the IP is banned
C32_Witness ==
  /\ Returned = Callers /\ MaxCallers > RateLimitAttempts
  /\ \A g \in Callers, h \in Callers : conns[g].ip = conns[h].ip /\ conns[g].t = conns[h].t
  /\ \E g \in Callers, h \in Callers : conns[g].surface # conns[h].surface
  /\ Cardinality({g \in Callers : conns[g].result}) = RateLimitAttempts
  /\ \E g \in Callers : conns[g].seq = MaxCallers /\ ~conns[g].result
  /\ conns[1].ip \in DOMAIN banned

\* the step is a download on either surface that the limiter let through
\* and whose code is that of a stored blob past its retention
StaleRead ==
  /\ resp'.op \in {"download", "webget"}
  /\ allow(Limiter, resp'.ip, now).ok
  /\ resp'.code \in DOMAIN index /\ Stale(index[resp'.code], now)
  /\ resp'.code \in DOMAIN blobFiles
  /\ Stale(blobFiles[resp'.code].CreatedAt, now)

\* C33 (as stated): download handlers evict on read: a TCP download or a
\* GET /get for a code whose blob is stale removes the metadata file, the
\* data file and the index entry of that code and answers not-found.
C33_StaleEvictedOnRead ==
  [][StaleRead =>
       /\ resp'.code \notin DOMAIN index'
       /\ resp'.code \notin DOMAIN blobFiles'
       /\ resp'.code \notin DOMAIN dataFiles'
       /\ resp'.status \in {StatusNotFound, HttpFound}]_vars

\* the fan-out is as the code leaves no task waiting: every non-empty slot
\* has its task, a task at its send finds room, a task has sent once when
\* it is past its send and never before, the channel is closed only when
\* every task is done, and the loop has ended only on a closed, drained
\* channel with every result received
FanOutInOrder ==
  Fanned =>
    /\ DOMAIN conns.tasks = conns.present
    /\ Cardinality(conns.present) <= resultsCap
    /\ \A id \in conns.present :
          /\ conns.tasks[id].pc = "send" => Len(conns.results) < resultsCap
          /\ conns.tasks[id].sent = (IF conns.tasks[id].pc \in {"sent", "done"} THEN 1 ELSE 0)
    /\ conns.closed => \A id \in conns.present : conns.tasks[id].pc = "done"
    /\ conns.loop = "ended" =>
          /\ conns.closed /\ conns.results = <<>>
          /\ conns.received = Cardinality(conns.present)

FanLoopEnded == Fanned /\ conns.loop = "ended"

\* C34: the probe fan-out always terminates without a blocked task: as
\* many tasks as the list has entries, each sends one result without
\* waiting, the channel is closed only after every task has finished, and
\* the selection loop ends, with or without a successful result.
C34_FanOutTerminates == []FanOutInOrder /\ <>FanLoopEnded

\* the loop has ended for a full list whose probes all failed: best is
\* still the zero result
C34_Witness ==
  /\ FanLoopEnded /\ conns.present = Candidates
  /\ conns.received = MaxServers
  /\ \A id \in Candidates : ~conns.tasks[id].r.ok /\ conns.tasks[id].pc = "done"
  /\ ~conns.best.ok

\* the plaintexts of every chunk in the data file of code
RECURSIVE AllPlain(_)
AllPlain(file) ==
  IF file = <<>> THEN <<>> ELSE <<Head(file).sealed.pt>> \o AllPlain(Tail(file))

\* C35 (as stated): in GET /get for a regular chunked blob a failure on any
\* chunk, the first or a later one, ends the request with a redirect: a
\* response that is not a redirect carries the whole plaintext.
C35_NoPartialBody ==
  (/\ resp.op = "webget" /\ resp.status = HttpOK
   /\ resp.code \in DOMAIN blobFiles /\ blobFiles[resp.code].Chunked)
    => /\ resp.payload[1].complete
       /\ resp.payload[1].body = AllPlain(dataFiles[resp.code])

\* C36 (as stated): the size cap is enforced while the chunks stream in, in
\* the regular and in the secure chunked upload: no data file ever holds
\* chunks whose plaintext lengths sum to more than MaxBlobSize.
C36_DataFileWithinCap ==
  \A c \in DOMAIN dataFiles : SumSealed(dataFiles[c]) <= MaxBlobSize

\* C37 (as stated): the sweeper never removes a blob whose createdAt is
\* within the retention window, under any interleaving of cleanupExpired
\* with uploads: a code loses its index entry or a file only if its index
\* entry is expired at that moment.
C37_SweeperRemovesOnlyExpired ==
  [][\A c \in DOMAIN index :
       (\/ c \notin DOMAIN index'
        \/ c \in DOMAIN blobFiles /\ c \notin DOMAIN blobFiles'
        \/ c \in DOMAIN dataFiles /\ c \notin DOMAIN dataFiles')
         => Stale(index[c], now)]_vars

\* C38 (as stated): a failed publish leaves the store unchanged: when
\* store.put returns an error, the in-memory index is as before and no new
\* or rewritten metadata file remains, so the blob cannot be served later.
C38_FailedPutLeavesStore ==
  [][FaultyPut =>
       /\ index' = index
       /\ \A c \in DOMAIN blobFiles' :
             c \in DOMAIN blobFiles /\ blobFiles'[c] = blobFiles[c]]_vars

\* the step is a download on either surface that the limiter lets through
\* and that finds its code stored and within the retention window
FoundUnexpired ==
  /\ resp'.op \in {"download", "webget"}
  /\ allow(Limiter, resp'.ip, now).ok
  /\ getOk(Store, resp'.code, now)
  /\ ~Stale(blobFiles[resp'.code].CreatedAt, now)

\* what a TCP download of code sends for the store as the step leaves it
PayloadAfter(code) ==
  IF blobFiles'[code].Chunked
  THEN sendChunkedFromFile(Store', code, blobFiles'[code]).payload
  ELSE WriteEncryptedBlob(blobFiles'[code])

\* C39: a download is non-destructive: a TCP or HTTP download that finds an
\* unexpired blob leaves the index, the index file, the metadata files and
\* the data files as they were, and what a TCP download has sent is what a
\* further download of the same code would send.
C39_DownloadLeavesStore ==
  [][FoundUnexpired =>
       /\ UNCHANGED storeVars
       /\ (resp'.op = "download" /\ resp'.format >= 0)
            => resp'.status = StatusOK /\ resp'.payload = PayloadAfter(resp'.code)]_vars

\* a TCP download, the last download request its IP may make in the
\* window, has sent its payload, and the code is still stored and unexpired
C39_Witness ==
  /\ resp.op = "download" /\ resp.status = StatusOK /\ resp.format >= 0
  /\ resp.payload # <<>>
  /\ resp.ip \in DOMAIN attempts /\ attempts[resp.ip].count = RateLimitAttempts
  /\ RateLimitAttempts >= 2
  /\ StoredUnexpired(resp.code)

\* C40 (as stated): the store recovers from a crash at any step of a
\* publish or a remove: after the start-up that follows, the unexpired
\* blobs whose index update had completed are in the index as persisted,
\* and no file of an interrupted publish is left: every <code>.blob and
\* <code>.dat in the data directory belongs to a code of the index.
C40_CrashRecovery ==
  [][resp'.op = "restart" =>
       /\ \A c \in DOMAIN indexFile :
             ~Stale(indexFile[c], now)
               => c \in DOMAIN index' /\ index'[c] = indexFile[c]
       /\ \A c \in DOMAIN blobFiles' \cup DOMAIN dataFiles' :
             Len(c) = CodeLength => c \in DOMAIN index']_vars

====
